---- MODULE Spec2Model ----
(***************************************************************************)
(* The NL parser (src/parsing/mod.rs) as TLA+ operators over strings.      *)
(* Every production takes the remaining input slice and returns a parser   *)
(* result: success with the new remaining slice and a value, a nom         *)
(* Err::Error carrying the VerboseError list, or a panic.                  *)
(***************************************************************************)
EXTENDS Integers, Sequences, FiniteSets, TLC

VARIABLES production, input, parts, file_name, result, pc

vars == <<production, input, parts, file_name, result, pc>>

----------------------------------------------------------------------------
(* Strings and character classes                                           *)

Ch(s, i) == SubSeq(s, i, i)

Take(s, n) == SubSeq(s, 1, n)

Drop(s, n) == SubSeq(s, n + 1, Len(s))

Chars(s) == {Ch(s, i) : i \in 1..Len(s)}

StartsWith(s, t) == Len(s) >= Len(t) /\ Take(s, Len(t)) = t

LowerChars == Chars("abcdefghijklmnopqrstuvwxyz")

UpperChars == Chars("ABCDEFGHIJKLMNOPQRSTUVWXYZ")

DigitChars == Chars("0123456789")

AlphaChars == LowerChars \cup UpperChars

AlphanumericChars == AlphaChars \cup DigitChars

SpaceChars == {" ", "\t", "\r", "\n"}

(* The least element of a non-empty set of integers.                        *)
Least(S) == CHOOSE n \in S : \A m \in S : n <= m

(* Length of the longest prefix of s that starts with its first i          *)
(* characters and continues with characters of class only.                 *)
PrefixLen(s, i, class) ==
    Least({n \in i..Len(s) : n = Len(s) \/ Ch(s, n + 1) \notin class})

PrefixLenNot(s, i, stop) ==
    Least({n \in i..Len(s) : n = Len(s) \/ Ch(s, n + 1) = stop})

(* Smallest k >= i such that pattern occurs in s right after k characters, *)
(* or -1 when the pattern does not occur.                                   *)
FindFrom(s, i, pattern) ==
    LET hits == {k \in i..(Len(s) - Len(pattern)) :
                    SubSeq(s, k + 1, k + Len(pattern)) = pattern}
    IN  IF hits = {} THEN -1 ELSE Least(hits)

----------------------------------------------------------------------------
(* Parser results                                                          *)

Nil == <<>>

Ok(rest, val) ==
    [ok |-> TRUE, panic |-> FALSE, rest |-> rest, val |-> val, errors |-> <<>>]

NomError(rest, code) ==
    [ok |-> FALSE, panic |-> FALSE, rest |-> rest, val |-> Nil,
     errors |-> <<[input |-> rest, kind |-> "Nom", what |-> code]>>]

Append1(r, rest, code) ==
    [r EXCEPT !.errors = Append(@, [input |-> rest, kind |-> "Nom", what |-> code])]

Panic(message) ==
    [ok |-> FALSE, panic |-> TRUE, rest |-> "", val |-> Nil,
     errors |-> <<[input |-> "", kind |-> "Panic", what |-> message]>>]

verbose_error(rest, message) ==
    [ok |-> FALSE, panic |-> FALSE, rest |-> rest, val |-> Nil,
     errors |-> <<[input |-> rest, kind |-> "Context", what |-> message]>>]

(* opt: an Err::Error becomes "nothing read"; a panic unwinds through it.  *)
None == [some |-> FALSE, v |-> Nil]

Some(v) == [some |-> TRUE, v |-> v]

Opt(r, rest) ==
    IF r.ok THEN Ok(r.rest, Some(r.val))
    ELSE IF r.panic THEN r
    ELSE Ok(rest, None)

(* terminated(first, second), given the results of both.                   *)
terminated(first, second) ==
    IF ~first.ok THEN first
    ELSE IF ~second.ok THEN second
    ELSE Ok(second.rest, first.val)

(* A repetition that takes the failure of its item for an empty item.      *)
many_step_retrying(kind, item, s, acc) ==
    IF item.ok
    THEN [continue |-> TRUE, r |-> Ok(item.rest, Append(acc, item.val))]
    ELSE [continue |-> TRUE, r |-> Ok(s, acc)]

(* One iteration of many0, many0_count and many1 at the input s with the   *)
(* items acc read so far, given the result of the item parser at s: an     *)
(* error of the item ends the repetition (many1 requires a first item), an *)
(* item that consumed nothing is an error of the repetition.               *)
many_step(kind, item, s, acc) ==
    IF item.panic THEN [continue |-> FALSE, r |-> item]
    ELSE IF ~item.ok
    THEN [continue |-> FALSE,
          r |-> IF kind = "Many1" /\ acc = <<>> THEN Append1(item, s, "Many1") ELSE Ok(s, acc)]
    ELSE IF item.rest = s /\ ~(kind = "Many1" /\ acc = <<>>)
    THEN [continue |-> FALSE, r |-> NomError(s, kind)]
    ELSE [continue |-> TRUE, r |-> Ok(item.rest, Append(acc, item.val))]

RECURSIVE call(_, _)

----------------------------------------------------------------------------
(* nom primitives (complete variants)                                      *)

tag(s, t) ==
    IF StartsWith(s, t) THEN Ok(Drop(s, Len(t)), t) ELSE NomError(s, "Tag")

char(s, c) ==
    IF StartsWith(s, c) THEN Ok(Drop(s, 1), c)
    ELSE [NomError(s, "Char") EXCEPT !.errors[1].kind = "Char", !.errors[1].what = c]

one_of(s, class) ==
    IF Len(s) > 0 /\ Ch(s, 1) \in class THEN Ok(Drop(s, 1), Ch(s, 1))
    ELSE NomError(s, "OneOf")

take_while(s, class) ==
    LET n == PrefixLen(s, 0, class) IN Ok(Drop(s, n), Take(s, n))

take_while1(s, class) ==
    LET n == PrefixLen(s, 0, class)
    IN  IF n = 0 THEN NomError(s, "TakeWhile1") ELSE Ok(Drop(s, n), Take(s, n))

take_until(s, pattern) ==
    LET n == FindFrom(s, 0, pattern)
    IN  IF n < 0 THEN NomError(s, "TakeUntil") ELSE Ok(Drop(s, n), Take(s, n))

multispace0(s) == call("take_while", <<s, SpaceChars>>)

alpha1(s) ==
    LET n == PrefixLen(s, 0, AlphaChars)
    IN  IF n = 0 THEN NomError(s, "Alpha") ELSE Ok(Drop(s, n), Take(s, n))

alphanumeric0(s) == call("take_while", <<s, AlphanumericChars>>)

alphanumeric1(s) ==
    LET n == PrefixLen(s, 0, AlphanumericChars)
    IN  IF n = 0 THEN NomError(s, "AlphaNumeric") ELSE Ok(Drop(s, n), Take(s, n))

digit1(s) ==
    LET n == PrefixLen(s, 0, DigitChars)
    IN  IF n = 0 THEN NomError(s, "Digit") ELSE Ok(Drop(s, n), Take(s, n))

(* delimited(char(open), take_while(|c| c != close), char(close))          *)
delimited_until(s, open, close) ==
    LET o == call("char", <<s, open>>)
        n == PrefixLenNot(o.rest, 0, close)
        c == call("char", <<Drop(o.rest, n), close>>)
    IN  IF ~o.ok THEN o
        ELSE IF ~c.ok THEN c
        ELSE Ok(c.rest, Take(o.rest, n))

----------------------------------------------------------------------------
(* Trivia                                                                  *)

read_comment(s) ==
    LET t1 == call("tag", <<s, "//">>)
        b1 == call("take_until", <<t1.rest, "\n">>)
        t2 == call("tag", <<s, "/*">>)
        b2 == call("take_until", <<t2.rest, "*/">>)
    IN  IF t1.ok /\ b1.ok THEN Ok(Drop(b1.rest, 1), b1.val)
        ELSE IF t2.ok /\ b2.ok THEN Ok(Drop(b2.rest, 2), b2.val)
        ELSE IF t2.ok THEN Append1(b2, s, "Alt")
        ELSE Append1(t2, s, "Alt")

RECURSIVE read_comments_rest(_)
(* many0_count(terminated(read_comment, multispace0)): the slice left.     *)
read_comments_rest(s) ==
    LET c == call("read_comment", <<s>>)
    IN  IF c.ok THEN read_comments_rest(call("multispace0", <<c.rest>>).rest) ELSE s

read_comments(s) ==
    LET rest == call("read_comments_rest", <<s>>)
    IN  Ok(rest, Take(s, Len(s) - Len(rest)))

blank(s) == Ok(call("read_comments", <<call("multispace0", <<s>>).rest>>).rest, Nil)

----------------------------------------------------------------------------
(* Names                                                                   *)

is_name == {"_", "."} \cup AlphaChars

is_method_char == {"_"} \cup AlphanumericChars

read_struct_or_trait_name(s) ==
    LET n == call("alphanumeric1", <<call("blank", <<s>>).rest>>)
    IN  IF n.ok THEN Ok(call("blank", <<n.rest>>).rest, n.val) ELSE n

read_method_name(s) ==
    LET n == call("take_while1", <<call("blank", <<s>>).rest, is_method_char>>)
    IN  IF n.ok THEN Ok(call("blank", <<n.rest>>).rest, n.val) ELSE n

read_variable_name(s) == call("take_while1", <<call("blank", <<s>>).rest, is_name>>)

----------------------------------------------------------------------------
(* Types                                                                   *)

NLType(t) == [t |-> t, name |-> ""]

NamedType(t, name) == [t |-> t, name |-> name]

PrimitiveKeywords ==
    [i8 |-> "I8", i16 |-> "I16", i32 |-> "I32", i64 |-> "I64",
     u8 |-> "U8", u16 |-> "U16", u32 |-> "U32", u64 |-> "U64",
     f32 |-> "F32", f64 |-> "F64", bool |-> "Boolean"]

is_signed(nl_type) == nl_type.t \in {"I8", "I16", "I32", "I64"}

is_unsigned(nl_type) == nl_type.t \in {"U8", "U16", "U32", "U64"}

is_integer(nl_type) == is_signed(nl_type) \/ is_unsigned(nl_type)

read_variable_type_primitive_no_whitespace(s) ==
    LET w == call("alphanumeric0", <<s>>)
    IN  IF w.val \in DOMAIN PrimitiveKeywords
        THEN Ok(w.rest, NLType(PrimitiveKeywords[w.val]))
        ELSE verbose_error(w.rest,
               "Constants must be primative types: i8-64, u8-64, f32-64, or bool.")

identify_struct_or_trait_type(s) ==
    LET amp == Opt(call("char", <<s, "&">>), s)
        is_reference == amp.val.some
        s1 == call("blank", <<amp.rest>>).rest
        mut == Opt(call("tag", <<s1, "mut">>), s1)
        is_mutable == is_reference /\ mut.val.some
        s2 == IF is_reference THEN call("blank", <<mut.rest>>).rest ELSE s1
        dyn == Opt(call("tag", <<s2, "dyn">>), s2)
        is_struct == ~dyn.val.some
        name == call("read_struct_or_trait_name", <<dyn.rest>>)
        variant ==
            IF is_struct
            THEN IF is_reference
                 THEN IF is_mutable THEN "MutableReferencedStruct" ELSE "ReferencedStruct"
                 ELSE "OwnedStruct"
            ELSE IF is_reference
                 THEN IF is_mutable THEN "MutableReferencedTrait" ELSE "ReferencedTrait"
                 ELSE "OwnedTrait"
    IN  IF ~amp.ok THEN amp
        ELSE IF is_reference /\ ~mut.ok THEN mut
        ELSE IF ~dyn.ok THEN dyn
        ELSE IF ~name.ok THEN name
        ELSE Ok(name.rest, NamedType(variant, name.val))

read_advanced_types(s) ==
    LET s1 == call("blank", <<s>>).rest
        str == call("tag", <<call("blank", <<s1>>).rest, "str">>)
    IN  IF str.ok THEN Ok(str.rest, NLType("BorrowedString"))
        ELSE call("identify_struct_or_trait_type", <<s1>>)

read_variable_type_no_whitespace(s) ==
    LET p == call("read_variable_type_primitive_no_whitespace", <<s>>)
        a == call("read_advanced_types", <<s>>)
    IN  IF p.ok THEN p
        ELSE IF a.ok THEN a
        ELSE Append1(a, s, "Alt")

read_variable_type(s) == call("read_variable_type_no_whitespace", <<call("blank", <<s>>).rest>>)

----------------------------------------------------------------------------
(* Integer values.  i64 and u64 do not fit the checker's integers, so a    *)
(* magnitude is a little-endian sequence of 16-bit limbs without a leading *)
(* zero limb (zero is the empty sequence).                                 *)

LimbBits == 16

LimbBase == 2 ^ LimbBits

RECURSIVE MulAdd(_, _, _)
(* mag * factor + carry                                                    *)
MulAdd(mag, factor, carry) ==
    IF mag = <<>> THEN (IF carry = 0 THEN <<>> ELSE <<carry>>)
    ELSE LET t == Head(mag) * factor + carry
         IN  <<t % LimbBase>> \o MulAdd(Tail(mag), factor, t \div LimbBase)

(* mag < 2^bits                                                            *)
FitsBits(mag, bits) ==
    LET q == bits \div LimbBits
        r == bits % LimbBits
    IN  \/ Len(mag) <= q
        \/ Len(mag) = q + 1 /\ mag[q + 1] < 2 ^ r

(* mag = 2^bits                                                            *)
IsPowerOfTwo(mag, bits) ==
    LET q == bits \div LimbBits
        r == bits % LimbBits
    IN  /\ Len(mag) = q + 1
        /\ mag[q + 1] = 2 ^ r
        /\ \A i \in 1..q : mag[i] = 0

LowerDigits == "0123456789abcdefghijklmnopqrstuvwxyz"

UpperDigits == "0123456789ABCDEFGHIJKLMNOPQRSTUVWXYZ"

(* char::to_digit: the digit value of c in the radix, or -1.               *)
to_digit(c, radix) ==
    LET hits == {i \in 1..radix : Ch(LowerDigits, i) = c \/ Ch(UpperDigits, i) = c}
    IN  IF hits = {} THEN -1 ELSE (CHOOSE i \in hits : TRUE) - 1

RECURSIVE from_str_radix_digits(_, _, _, _, _)
(* The checked multiply-and-add loop of from_str_radix over the digits.    *)
from_str_radix_digits(digits, radix, bits, neg, acc) ==
    IF digits = "" THEN [ok |-> TRUE, value |-> [neg |-> neg /\ acc # <<>>, mag |-> acc]]
    ELSE LET d == to_digit(Ch(digits, 1), radix)
             next == MulAdd(acc, radix, d)
         IN  IF d < 0 THEN [ok |-> FALSE, value |-> "InvalidDigit"]
             ELSE IF ~(FitsBits(next, bits) \/ (neg /\ IsPowerOfTwo(next, bits)))
             THEN [ok |-> FALSE, value |-> "Overflow"]
             ELSE from_str_radix_digits(Drop(digits, 1), radix, bits, neg, next)

(* i64::from_str_radix (signed) and u64::from_str_radix (unsigned).        *)
from_str_radix(text, radix, signed) ==
    LET neg == signed /\ StartsWith(text, "-")
        digits == IF neg \/ StartsWith(text, "+") THEN Drop(text, 1) ELSE text
        bits == IF signed THEN 63 ELSE 64
    IN  IF text = "" \/ digits = "" THEN [ok |-> FALSE, value |-> "Empty"]
        ELSE call("from_str_radix_digits", <<digits, radix, bits, neg, <<>>>>)

----------------------------------------------------------------------------
(* Float values: the decimal the text denotes, sign, mantissa without      *)
(* trailing zeros and power of ten.                                        *)

RECURSIVE StrToNat(_, _)
StrToNat(digits, acc) ==
    IF digits = "" THEN acc
    ELSE StrToNat(Drop(digits, 1), acc * 10 + to_digit(Ch(digits, 1), 10))

RECURSIVE NormalFloat(_, _, _)
NormalFloat(neg, mant, exp) ==
    IF mant = 0 THEN [neg |-> FALSE, mant |-> 0, exp |-> 0]
    ELSE IF mant % 10 = 0 THEN NormalFloat(neg, mant \div 10, exp + 1)
    ELSE [neg |-> neg, mant |-> mant, exp |-> exp]

(* str::parse::<f32> / <f64> on the recognised text.                       *)
parse_number(text) ==
    LET neg == StartsWith(text, "-")
        body == IF neg THEN Drop(text, 1) ELSE text
        ni == PrefixLen(body, 0, DigitChars)
        after_int == Drop(body, ni)
        has_dot == StartsWith(after_int, ".")
        frac_all == IF has_dot THEN Drop(after_int, 1) ELSE after_int
        nf == IF has_dot THEN PrefixLen(frac_all, 0, DigitChars) ELSE 0
        after_frac == Drop(frac_all, nf)
        has_exp == Len(after_frac) > 0 /\ Ch(after_frac, 1) \in {"e", "E"}
        exp_all == Drop(after_frac, 1)
        exp_neg == StartsWith(exp_all, "-")
        exp_digits == IF exp_neg \/ StartsWith(exp_all, "+") THEN Drop(exp_all, 1) ELSE exp_all
        ne == PrefixLen(exp_digits, 0, DigitChars)
        e == IF has_exp THEN (IF exp_neg THEN 0 - StrToNat(exp_digits, 0) ELSE StrToNat(exp_digits, 0))
             ELSE 0
        well_formed ==
            /\ ni + nf > 0
            /\ IF has_exp THEN ne > 0 /\ ne = Len(exp_digits) ELSE after_frac = ""
    IN  IF ~well_formed THEN verbose_error(text, "parse constant integer")
        ELSE Ok(text, NormalFloat(neg, StrToNat(Take(body, ni) \o Take(frac_all, nf), 0), e - nf))

----------------------------------------------------------------------------
(* Numeric literals                                                        *)

(* recognize(many1(terminated(one_of(class), many0(char('_')))))           *)
digits_run(s, class) ==
    IF Len(s) > 0 /\ Ch(s, 1) \in class
    THEN LET n == PrefixLen(s, 1, class \cup {"_"}) IN Ok(Drop(s, n), Take(s, n))
    ELSE Append1(NomError(s, "OneOf"), s, "Many1")

ParsedInteger(text, radix) == [text |-> text, radix |-> radix]

parse_decimal(s) ==
    LET t == call("digits_run", <<s, Chars("-0123456789")>>)
    IN  IF t.ok THEN Ok(t.rest, ParsedInteger(t.val, 10)) ELSE t

prefixed_integer(s, lower, upper, class, radix) ==
    LET p == IF StartsWith(s, lower) THEN call("tag", <<s, lower>>) ELSE call("tag", <<s, upper>>)
        t == call("digits_run", <<p.rest, class>>)
    IN  IF ~p.ok THEN Append1(p, s, "Alt")
        ELSE IF ~t.ok THEN t
        ELSE Ok(t.rest, ParsedInteger(t.val, radix))

parse_hexadecimal(s) == call("prefixed_integer", <<s, "0x", "0X", Chars("0123456789abcdefABCDEF"), 16>>)

parse_octal(s) == call("prefixed_integer", <<s, "0o", "0O", Chars("01234567"), 8>>)

parse_binary(s) == call("prefixed_integer", <<s, "0b", "0B", Chars("01"), 2>>)

parse_integer(s) ==
    LET h == call("parse_hexadecimal", <<s>>)
        b == call("parse_binary", <<s>>)
        o == call("parse_octal", <<s>>)
        d == call("parse_decimal", <<s>>)
    IN  IF h.ok THEN h
        ELSE IF b.ok THEN b
        ELSE IF o.ok THEN o
        ELSE IF d.ok THEN d
        ELSE Append1(d, s, "Alt")

float_decimal(s) == call("digits_run", <<s, DigitChars>>)

(* opt(tuple((one_of("eE"), opt(one_of("+-")), parse_decimal))): the rest.  *)
float_exponent(s) ==
    LET e == call("one_of", <<s, {"e", "E"}>>)
        sign == Opt(call("one_of", <<e.rest, {"+", "-"}>>), e.rest)
        d == call("float_decimal", <<sign.rest>>)
    IN  IF ~e.ok THEN e ELSE d

parse_float(s) ==
    LET s0 == Opt(call("char", <<s, "-">>), s).rest
        \* .digits[exp]
        dot1 == call("char", <<s0, ".">>)
        frac1 == call("float_decimal", <<dot1.rest>>)
        exp1 == Opt(call("float_exponent", <<frac1.rest>>), frac1.rest)
        \* digits[.digits]exp
        int2 == call("float_decimal", <<s0>>)
        dot2 == call("char", <<int2.rest, ".">>)
        frac2 == call("float_decimal", <<dot2.rest>>)
        mid2 == IF dot2.ok /\ frac2.ok THEN frac2.rest ELSE int2.rest
        exp2 == call("float_exponent", <<mid2>>)
        \* digits.[digits]
        frac3 == Opt(call("float_decimal", <<dot2.rest>>), dot2.rest)
        recognised(rest) == Ok(rest, Take(s, Len(s) - Len(rest)))
    IN  IF dot1.ok /\ frac1.ok THEN recognised(exp1.rest)
        ELSE IF int2.ok /\ exp2.ok THEN recognised(exp2.rest)
        ELSE IF int2.ok /\ dot2.ok THEN recognised(frac3.rest)
        ELSE IF ~int2.ok THEN Append1(int2, s, "Alt")
        ELSE Append1(dot2, s, "Alt")

----------------------------------------------------------------------------
(* Constants                                                               *)

Boolean(b) == [c |-> "Boolean", value |-> b, type |-> NLType("Boolean")]

Unsigned(v, t) == [c |-> "Unsigned", value |-> v, type |-> t]

Signed(v, t) == [c |-> "Signed", value |-> v, type |-> t]

Float32(v) == [c |-> "Float32", value |-> v, type |-> NLType("F32")]

Float64(v) == [c |-> "Float64", value |-> v, type |-> NLType("F64")]

String(v) == [c |-> "String", value |-> v, type |-> NLType("BorrowedString")]

read_boolean_constant(s) ==
    LET w == call("alpha1", <<s>>)
    IN  IF ~w.ok THEN w
        ELSE IF w.val = "true" THEN Ok(w.rest, Boolean(TRUE))
        ELSE IF w.val = "false" THEN Ok(w.rest, Boolean(FALSE))
        ELSE verbose_error(w.rest, "boolean must be true or false")

read_float_constant(number, rest) ==
    LET t == call("read_variable_type_primitive_no_whitespace", <<rest>>)
        v == call("parse_number", <<number>>)
    IN  IF t.ok /\ t.val.t \notin {"F32", "F64"}
        THEN verbose_error(t.rest,
               "Cannot represent a fractional number as anything other than a floating point type.")
        ELSE IF ~v.ok THEN v
        ELSE IF t.ok /\ t.val.t = "F64" THEN Ok(t.rest, Float64(v.val))
        ELSE IF t.ok THEN Ok(t.rest, Float32(v.val))
        ELSE Ok(rest, Float32(v.val))

(* An integer branch that assumes 64 bits when no type is written.          *)
integer_constant_assuming_i64(s) ==
    LET i == call("parse_integer", <<s>>)
        t == call("read_variable_type_primitive_no_whitespace", <<i.rest>>)
        rest == IF t.ok THEN t.rest ELSE i.rest
        nl_type == IF t.ok THEN t.val ELSE NLType("I64")
        n == call("from_str_radix", <<i.val.text, i.val.radix, is_signed(nl_type)>>)
    IN  IF ~i.ok THEN i
        ELSE IF t.ok /\ t.val.t = "Boolean"
        THEN verbose_error(t.rest, "Cannot represent a number as a boolean.")
        ELSE IF ~n.ok THEN verbose_error(rest, "Failed to parse integer.")
        ELSE IF is_signed(nl_type) THEN Ok(rest, Signed(n.value, nl_type))
        ELSE Ok(rest, Unsigned(n.value, nl_type))

read_integer_constant(s) ==
    LET i == call("parse_integer", <<s>>)
        t == call("read_variable_type_primitive_no_whitespace", <<i.rest>>)
        rest == IF t.ok THEN t.rest ELSE i.rest
        nl_type == IF t.ok THEN t.val ELSE NLType("I32")
        n == call("from_str_radix", <<i.val.text, i.val.radix, is_signed(nl_type)>>)
    IN  IF ~i.ok THEN i
        ELSE IF t.ok /\ t.val.t = "Boolean"
        THEN verbose_error(t.rest, "Cannot represent a number as a boolean.")
        ELSE IF ~n.ok THEN verbose_error(rest, "Failed to parse integer.")
        ELSE IF is_signed(nl_type) THEN Ok(rest, Signed(n.value, nl_type))
        ELSE Ok(rest, Unsigned(n.value, nl_type))

read_numerical_constant(s) ==
    LET float_attempt == call("parse_float", <<s>>)
    IN  IF float_attempt.ok
        THEN call("read_float_constant", <<float_attempt.val, float_attempt.rest>>)
        ELSE call("read_integer_constant", <<s>>)

read_string_constant(s) ==
    LET d == call("delimited_until", <<call("blank", <<s>>).rest, "\"", "\"">>)
    IN  IF d.ok THEN Ok(d.rest, String(d.val)) ELSE d

read_constant_raw(s) ==
    LET s1 == call("blank", <<s>>).rest
        b == call("read_boolean_constant", <<s1>>)
        n == call("read_numerical_constant", <<s1>>)
        t == call("read_string_constant", <<s1>>)
    IN  IF b.ok THEN b
        ELSE IF n.ok THEN n
        ELSE IF t.ok THEN t
        ELSE Append1(t, s1, "Alt")

----------------------------------------------------------------------------
(* Operations (NLOperation)                                                *)

Block(operations) == [op |-> "Block", operations |-> operations]

Constant(c) == [op |-> "Constant", constant |-> c]

Assign(is_new, to_assign, type_assignments, assignment) ==
    [op |-> "Assign", is_new |-> is_new, to_assign |-> to_assign,
     type_assignments |-> type_assignments, assignment |-> assignment]

VariableAccess(name) == [op |-> "VariableAccess", name |-> name]

Tuple(items) == [op |-> "Tuple", items |-> items]

Operator(kind, operands) == [op |-> "Operator", operator |-> kind, operands |-> operands]

If(condition, true_block, false_block) ==
    [op |-> "If", condition |-> condition, true_block |-> true_block,
     false_block |-> false_block]

Loop(block) == [op |-> "Loop", block |-> block]

WhileLoop(condition, block) == [op |-> "WhileLoop", condition |-> condition, block |-> block]

ForLoop(variable, iterator, block) ==
    [op |-> "ForLoop", variable |-> variable, iterator |-> iterator, block |-> block]

Break == [op |-> "Break"]

Match(in, branches) == [op |-> "Match", input |-> in, branches |-> branches]

FunctionCall(path, arguments) == [op |-> "FunctionCall", path |-> path, arguments |-> arguments]

MatchEnumBranch(nl_enum, variant, variables) ==
    [branch |-> "Enum", nl_enum |-> nl_enum, variant |-> variant, variables |-> variables]

MatchConstantBranch(c) == [branch |-> "Constant", constant |-> c]

RECURSIVE read_operation(_)
RECURSIVE read_sub_operation(_)
RECURSIVE read_tuple(_)
RECURSIVE read_tuple_items(_, _)
RECURSIVE read_assignment(_)
RECURSIVE read_urinary_operator(_)
RECURSIVE read_binary_operator(_)
RECURSIVE read_if_statement(_)
RECURSIVE read_basic_loop(_)
RECURSIVE read_while_loop(_)
RECURSIVE read_for_loop(_)
RECURSIVE read_match(_)
RECURSIVE read_branch_body(_)
RECURSIVE read_enum_branch(_)
RECURSIVE read_constant_branch(_)
RECURSIVE read_range_branch(_)
RECURSIVE read_branch(_)
RECURSIVE read_branches(_, _)
RECURSIVE read_code_block_raw(_)
RECURSIVE read_code_block(_)
RECURSIVE read_operations(_, _)

(* tuple((blank, char(','), blank))                                        *)
comma_separator(s) ==
    LET c == call("char", <<call("blank", <<s>>).rest, ",">>)
    IN  IF c.ok THEN Ok(call("blank", <<c.rest>>).rest, ",") ELSE c

RECURSIVE read_names_loose(_, _)
(* many0(terminated(read_variable_name, tuple((blank, char(','), blank))))  *)
read_names_loose(s, acc) ==
    LET n == call("read_variable_name", <<s>>)
        c == call("comma_separator", <<n.rest>>)
    IN  IF n.ok /\ c.ok THEN read_names_loose(c.rest, Append(acc, n.val))
        ELSE Ok(s, acc)

read_tuple_of_variable_names(s) ==
    LET d == call("delimited_until", <<s, "(", ")">>)
        vs == call("read_names_loose", <<d.val, <<>>>>)
        last_var == Opt(call("read_variable_name", <<vs.rest>>), vs.rest)
    IN  IF ~d.ok THEN d
        ELSE IF ~vs.ok THEN vs
        ELSE IF ~last_var.ok THEN last_var
        ELSE IF last_var.val.some THEN Ok(d.rest, Append(vs.val, last_var.val.v))
        ELSE Ok(d.rest, vs.val)

RECURSIVE read_names_tight(_, _)
(* many0(terminated(read_variable_name, char(',')))                        *)
read_names_tight(s, acc) ==
    LET n == call("read_variable_name", <<s>>)
        c == call("char", <<n.rest, ",">>)
    IN  IF n.ok /\ c.ok THEN read_names_tight(c.rest, Append(acc, n.val))
        ELSE Ok(s, acc)

(* The list of names read from the text between two parentheses.           *)
read_name_list(arg_input) ==
    LET vs == call("read_names_tight", <<arg_input, <<>>>>)
        last_arg == Opt(call("read_variable_name", <<vs.rest>>), vs.rest)
    IN  IF last_arg.val.some THEN Append(vs.val, last_arg.val.v) ELSE vs.val

read_single_variable(s) ==
    LET n == call("read_variable_name", <<s>>)
    IN  IF n.ok THEN Ok(n.rest, <<n.val>>) ELSE n

read_constant(s) ==
    LET c == call("read_constant_raw", <<s>>)
    IN  IF c.ok THEN Ok(c.rest, Constant(c.val)) ELSE c

read_break_keyword(s) ==
    LET b == call("tag", <<s, "break">>)
    IN  IF b.ok THEN Ok(b.rest, Break)
        ELSE verbose_error(s, "This is not a break operation.")

read_variable_access_raw(s) == call("read_variable_name", <<call("blank", <<s>>).rest>>)

read_variable_access(s) ==
    LET v == call("read_variable_access_raw", <<s>>)
    IN  IF v.ok THEN Ok(v.rest, VariableAccess(v.val)) ELSE v

read_function_call(s) ==
    LET path == call("read_variable_name", <<call("blank", <<s>>).rest>>)
        d == call("delimited_until", <<call("blank", <<path.rest>>).rest, "(", ")">>)
    IN  IF ~path.ok THEN path
        ELSE IF ~d.ok THEN d
        ELSE Ok(d.rest, FunctionCall(path.val, call("read_name_list", <<d.val>>)))

(* many0(terminated(read_operation, tuple((blank, char(','), blank))))      *)
read_tuple_items(s, acc) ==
    LET o == call("read_operation", <<s>>)
        c == call("comma_separator", <<o.rest>>)
    IN  IF o.panic THEN o
        ELSE IF o.ok /\ c.ok THEN read_tuple_items(c.rest, Append(acc, o.val))
        ELSE Ok(s, acc)

read_tuple(s) ==
    LET d == call("delimited_until", <<call("blank", <<s>>).rest, "(", ")">>)
        items == call("read_tuple_items", <<d.val, <<>>>>)
        last_item == Opt(call("read_operation", <<items.rest>>), items.rest)
    IN  IF ~d.ok THEN d
        ELSE IF ~items.ok THEN items
        ELSE IF ~last_item.ok THEN last_item
        ELSE IF last_item.val.some THEN Ok(d.rest, Tuple(Append(items.val, last_item.val.v)))
        ELSE Ok(d.rest, Tuple(items.val))

read_assignment(s) ==
    LET let == Opt(call("tag", <<call("blank", <<s>>).rest, "let">>), call("blank", <<s>>).rest)
        is_new == let.val.some
        s1 == call("blank", <<let.rest>>).rest
        tuple_names == call("read_tuple_of_variable_names", <<s1>>)
        single_name == call("read_single_variable", <<s1>>)
        names == IF tuple_names.ok THEN tuple_names
                 ELSE IF single_name.ok THEN single_name
                 ELSE Append1(single_name, s1, "Alt")
        s2 == call("blank", <<names.rest>>).rest
        colon == Opt(call("char", <<s2, ":">>), s2)
        has_type_assignment == colon.val.some
        type == call("read_variable_type", <<colon.rest>>)
        type_assignments ==
            IF ~has_type_assignment THEN <<>>
            ELSE IF type.val.t = "Tuple" THEN type.val.items
            ELSE <<type.val>>
        s3 == IF has_type_assignment THEN type.rest ELSE colon.rest
        equals == call("char", <<call("blank", <<s3>>).rest, "=">>)
        assignment == call("read_operation", <<call("blank", <<call("blank", <<equals.rest>>).rest>>).rest>>)
    IN  IF /\ let.ok
           /\ names.ok
           /\ colon.ok
           /\ has_type_assignment => type.ok
           /\ equals.ok
           /\ assignment.ok
        THEN Ok(assignment.rest,
                Assign(is_new, names.val, type_assignments, assignment.val))
        ELSE IF ~let.ok THEN let
        ELSE IF ~names.ok THEN names
        ELSE IF ~colon.ok THEN colon
        ELSE IF has_type_assignment /\ ~type.ok THEN type
        ELSE IF ~equals.ok THEN equals
        ELSE assignment

OperatorSymbols == Chars("=!~|&^%+-*/<>.")

take_operator_symbol(s) == call("take_while1", <<s, OperatorSymbols>>)

UnaryOperators ==
    [symbol \in {"!", "~", "-"} |->
        CASE symbol = "!" -> "LogicalNegate"
          [] symbol = "~" -> "BitNegate"
          [] symbol = "-" -> "ArithmeticNegate"]

read_urinary_operator(s) ==
    LET operator == call("take_operator_symbol", <<call("blank", <<s>>).rest>>)
        operand == call("read_operation", <<call("blank", <<operator.rest>>).rest>>)
    IN  IF ~operator.ok THEN operator
        ELSE IF ~operand.ok THEN operand
        ELSE IF operator.val \in DOMAIN UnaryOperators
        THEN Ok(operand.rest, Operator(UnaryOperators[operator.val], <<operand.val>>))
        ELSE verbose_error(operand.rest, "unknown operator")

BinaryOperators ==
    ("==" :> "CompareEqual") @@ ("!=" :> "CompareNotEqual") @@
    (">=" :> "CompareGreaterEqual") @@ ("<=" :> "CompareLessEqual") @@
    (">" :> "CompareGreater") @@ ("<" :> "CompareLess") @@
    ("&&" :> "LogicalAnd") @@ ("||" :> "LogicalOr") @@ ("^^" :> "LogicalXor") @@
    ("&" :> "BitAnd") @@ ("|" :> "BitOr") @@ ("^" :> "BitXor") @@
    ("<<" :> "BitLeftShift") @@ (">>" :> "BitRightShift") @@
    ("+" :> "ArithmeticAdd") @@ ("-" :> "ArithmeticSub") @@ ("%" :> "ArithmeticMod") @@
    ("/" :> "ArithmeticDiv") @@ ("*" :> "ArithmeticMul") @@ (".." :> "Range")

(* A binary operator whose right operand is a whole operation.             *)
binary_operator_with_chaining(s) ==
    LET operand_a == call("read_sub_operation", <<call("blank", <<s>>).rest>>)
        operator == call("take_operator_symbol", <<call("blank", <<operand_a.rest>>).rest>>)
        operand_b == call("read_operation", <<call("blank", <<operator.rest>>).rest>>)
    IN  IF ~operand_a.ok THEN operand_a
        ELSE IF ~operator.ok THEN operator
        ELSE IF ~operand_b.ok THEN operand_b
        ELSE IF operator.val \in DOMAIN BinaryOperators
        THEN Ok(operand_b.rest,
                Operator(BinaryOperators[operator.val], <<operand_a.val, operand_b.val>>))
        ELSE verbose_error(operand_b.rest, "unknown operator")

read_binary_operator(s) ==
    LET operand_a == call("read_sub_operation", <<call("blank", <<s>>).rest>>)
        operator == call("take_operator_symbol", <<call("blank", <<operand_a.rest>>).rest>>)
        operand_b == call("read_sub_operation", <<call("blank", <<operator.rest>>).rest>>)
    IN  IF ~operand_a.ok THEN operand_a
        ELSE IF ~operator.ok THEN operator
        ELSE IF ~operand_b.ok THEN operand_b
        ELSE IF operator.val \in DOMAIN BinaryOperators
        THEN Ok(operand_b.rest,
                Operator(BinaryOperators[operator.val], <<operand_a.val, operand_b.val>>))
        ELSE verbose_error(operand_b.rest, "unknown operator")

read_if_statement(s) ==
    LET if == call("tag", <<call("blank", <<s>>).rest, "if">>)
        condition == call("read_operation", <<call("blank", <<if.rest>>).rest>>)
        true_block == call("read_code_block", <<call("blank", <<condition.rest>>).rest>>)
        s1 == call("blank", <<true_block.rest>>).rest
        else_tag == Opt(call("tag", <<s1, "else">>), s1)
        false_block == call("read_code_block", <<else_tag.rest>>)
    IN  IF ~if.ok THEN if
        ELSE IF ~condition.ok THEN condition
        ELSE IF ~true_block.ok THEN true_block
        ELSE IF ~else_tag.ok THEN else_tag
        ELSE IF ~else_tag.val.some
        THEN Ok(else_tag.rest, If(condition.val, true_block.val.operations, <<>>))
        ELSE IF ~false_block.ok THEN false_block
        ELSE Ok(false_block.rest,
                If(condition.val, true_block.val.operations, false_block.val.operations))

read_basic_loop(s) ==
    LET loop == call("tag", <<call("blank", <<s>>).rest, "loop">>)
        block == call("read_code_block_raw", <<call("blank", <<loop.rest>>).rest>>)
    IN  IF ~loop.ok THEN loop
        ELSE IF ~block.ok THEN block
        ELSE Ok(block.rest, Loop(block.val))

read_while_loop(s) ==
    LET while == call("tag", <<call("blank", <<s>>).rest, "while">>)
        condition == call("read_operation", <<call("blank", <<while.rest>>).rest>>)
        block == call("read_code_block_raw", <<call("blank", <<condition.rest>>).rest>>)
    IN  IF ~while.ok THEN while
        ELSE IF ~condition.ok THEN condition
        ELSE IF ~block.ok THEN block
        ELSE Ok(block.rest, WhileLoop(condition.val, block.val))

read_for_loop(s) ==
    LET for == call("tag", <<call("blank", <<s>>).rest, "for">>)
        variable == call("read_variable_access_raw", <<call("blank", <<for.rest>>).rest>>)
        in == call("tag", <<call("blank", <<variable.rest>>).rest, "in">>)
        iterator == call("read_operation", <<call("blank", <<in.rest>>).rest>>)
        block == call("read_code_block_raw", <<call("blank", <<iterator.rest>>).rest>>)
    IN  IF ~for.ok THEN for
        ELSE IF ~variable.ok THEN variable
        ELSE IF ~in.ok THEN in
        ELSE IF ~iterator.ok THEN iterator
        ELSE IF ~block.ok THEN block
        ELSE Ok(block.rest, ForLoop(variable.val, iterator.val, block.val))

read_branch_body(s) ==
    LET arrow == call("tag", <<call("blank", <<s>>).rest, "=>">>)
    IN  IF ~arrow.ok THEN arrow ELSE call("read_operation", <<call("blank", <<arrow.rest>>).rest>>)

read_enum_branch(s) ==
    LET nl_enum == call("read_variable_name", <<call("blank", <<s>>).rest>>)
        colons == call("tag", <<call("blank", <<nl_enum.rest>>).rest, "::">>)
        variant == call("read_variable_name", <<call("blank", <<colons.rest>>).rest>>)
        s1 == call("blank", <<variant.rest>>).rest
        var_input == Opt(call("delimited_until", <<s1, "(", ")">>), s1)
        variables == IF var_input.val.some THEN call("read_name_list", <<var_input.val.v>>) ELSE <<>>
        operation == call("read_branch_body", <<var_input.rest>>)
    IN  IF ~nl_enum.ok THEN nl_enum
        ELSE IF ~colons.ok THEN colons
        ELSE IF ~variant.ok THEN variant
        ELSE IF ~var_input.ok THEN var_input
        ELSE IF ~operation.ok THEN operation
        ELSE Ok(operation.rest,
                <<MatchEnumBranch(nl_enum.val, variant.val, variables), operation.val>>)

read_constant_branch(s) ==
    LET constant == call("read_constant_raw", <<call("blank", <<s>>).rest>>)
        operation == call("read_branch_body", <<call("blank", <<constant.rest>>).rest>>)
    IN  IF ~constant.ok THEN constant
        ELSE IF ~operation.ok THEN operation
        ELSE Ok(operation.rest, <<MatchConstantBranch(constant.val), operation.val>>)

read_range_branch(s) ==
    LET lower == call("digit1", <<call("blank", <<s>>).rest>>)
        lower_int == call("parse_integer", <<lower.val>>)
        dots == call("tag", <<call("blank", <<lower.rest>>).rest, "..">>)
        higher == call("digit1", <<call("blank", <<dots.rest>>).rest>>)
        higher_int == call("parse_integer", <<higher.val>>)
        operation == call("read_branch_body", <<call("blank", <<higher.rest>>).rest>>)
    IN  IF ~lower.ok THEN lower
        ELSE IF ~lower_int.ok THEN lower_int
        ELSE IF ~dots.ok THEN dots
        ELSE IF ~higher.ok THEN higher
        ELSE IF ~higher_int.ok THEN higher_int
        ELSE IF ~operation.ok THEN operation
        ELSE Panic("not implemented")

read_branch(s) ==
    LET range == call("read_range_branch", <<s>>)
        constant == call("read_constant_branch", <<s>>)
        enum == call("read_enum_branch", <<s>>)
    IN  IF range.ok \/ range.panic THEN range
        ELSE IF constant.ok \/ constant.panic THEN constant
        ELSE IF enum.ok \/ enum.panic THEN enum
        ELSE Append1(enum, s, "Alt")

(* many0(terminated(read_branch, char(',')))                               *)
read_branches(s, acc) ==
    LET b == call("read_branch", <<s>>)
        c == call("char", <<b.rest, ",">>)
    IN  IF b.panic THEN b
        ELSE IF b.ok /\ c.ok THEN read_branches(c.rest, Append(acc, b.val))
        ELSE Ok(s, acc)

(* A match where every branch must be followed by a comma.                 *)
match_requiring_commas(s) ==
    LET match == call("tag", <<call("blank", <<s>>).rest, "match">>)
        input_operation == call("read_operation", <<call("blank", <<match.rest>>).rest>>)
        open == call("char", <<call("blank", <<input_operation.rest>>).rest, "{">>)
        branches == call("read_branches", <<call("blank", <<open.rest>>).rest, <<>>>>)
        close == call("char", <<call("blank", <<branches.rest>>).rest, "}">>)
    IN  IF ~match.ok THEN match
        ELSE IF ~input_operation.ok THEN input_operation
        ELSE IF ~open.ok THEN open
        ELSE IF ~branches.ok THEN branches
        ELSE IF ~close.ok THEN close
        ELSE Ok(close.rest, Match(input_operation.val, branches.val))

read_match(s) ==
    LET match == call("tag", <<call("blank", <<s>>).rest, "match">>)
        input_operation == call("read_operation", <<call("blank", <<match.rest>>).rest>>)
        open == call("char", <<call("blank", <<input_operation.rest>>).rest, "{">>)
        branches == call("read_branches", <<call("blank", <<open.rest>>).rest, <<>>>>)
        s1 == call("blank", <<branches.rest>>).rest
        last_branch == Opt(call("read_branch", <<s1>>), s1)
        all == IF last_branch.val.some THEN Append(branches.val, last_branch.val.v)
               ELSE branches.val
        close == call("char", <<call("blank", <<last_branch.rest>>).rest, "}">>)
    IN  IF ~match.ok THEN match
        ELSE IF ~input_operation.ok THEN input_operation
        ELSE IF ~open.ok THEN open
        ELSE IF ~branches.ok THEN branches
        ELSE IF ~last_branch.ok THEN last_branch
        ELSE IF ~close.ok THEN close
        ELSE Ok(close.rest, Match(input_operation.val, all))

(* many0(read_operation)                                                   *)
read_operations(s, acc) ==
    LET o == call("read_operation", <<s>>)
    IN  IF o.panic THEN o
        ELSE IF ~o.ok THEN Ok(s, acc)
        ELSE IF o.rest = s THEN NomError(s, "Many0")
        ELSE read_operations(o.rest, Append(acc, o.val))

read_code_block_raw(s) ==
    LET open == call("char", <<call("blank", <<s>>).rest, "{">>)
        operations == call("read_operations", <<open.rest, <<>>>>)
        close == call("char", <<call("blank", <<operations.rest>>).rest, "}">>)
    IN  IF ~open.ok THEN open
        ELSE IF ~operations.ok THEN operations
        ELSE IF ~close.ok THEN close
        ELSE Ok(close.rest, operations.val)

read_code_block(s) ==
    LET block == call("read_code_block_raw", <<s>>)
    IN  IF block.ok THEN Ok(block.rest, Block(block.val)) ELSE block

read_sub_operation(s) ==
    LET r1 == call("read_code_block", <<s>>)
        r2 == call("read_tuple", <<s>>)
        r3 == call("read_function_call", <<s>>)
        r4 == call("read_assignment", <<s>>)
        r5 == call("read_constant", <<s>>)
        r6 == call("read_urinary_operator", <<s>>)
        r7 == call("read_variable_access", <<s>>)
    IN  IF /\ ~(r1.ok \/ r1.panic)
           /\ ~(r2.ok \/ r2.panic)
           /\ ~(r3.ok \/ r3.panic)
           /\ ~(r4.ok \/ r4.panic)
           /\ ~(r5.ok \/ r5.panic)
           /\ ~(r6.ok \/ r6.panic)
           /\ ~(r7.ok \/ r7.panic)
        THEN Append1(r7, s, "Alt")
        ELSE IF r1.ok \/ r1.panic THEN r1
        ELSE IF r2.ok \/ r2.panic THEN r2
        ELSE IF r3.ok \/ r3.panic THEN r3
        ELSE IF r4.ok \/ r4.panic THEN r4
        ELSE IF r5.ok \/ r5.panic THEN r5
        ELSE IF r6.ok \/ r6.panic THEN r6
        ELSE r7

read_operation(s) ==
    LET r1 == call("read_code_block", <<s>>)
        r2 == call("read_if_statement", <<s>>)
        r3 == call("read_match", <<s>>)
        r4 == call("read_break_keyword", <<s>>)
        r5 == call("read_basic_loop", <<s>>)
        r6 == call("read_while_loop", <<s>>)
        r7 == call("read_for_loop", <<s>>)
        r8 == call("read_tuple", <<s>>)
        r9 == call("read_function_call", <<s>>)
        r10 == call("read_assignment", <<s>>)
        r11 == call("read_binary_operator", <<s>>)
        r12 == call("read_constant", <<s>>)
        r13 == call("read_urinary_operator", <<s>>)
        r14 == call("read_variable_access", <<s>>)
    IN  IF /\ ~(r1.ok \/ r1.panic)
           /\ ~(r2.ok \/ r2.panic)
           /\ ~(r3.ok \/ r3.panic)
           /\ ~(r4.ok \/ r4.panic)
           /\ ~(r5.ok \/ r5.panic)
           /\ ~(r6.ok \/ r6.panic)
           /\ ~(r7.ok \/ r7.panic)
           /\ ~(r8.ok \/ r8.panic)
           /\ ~(r9.ok \/ r9.panic)
           /\ ~(r10.ok \/ r10.panic)
           /\ ~(r11.ok \/ r11.panic)
           /\ ~(r12.ok \/ r12.panic)
           /\ ~(r13.ok \/ r13.panic)
           /\ ~(r14.ok \/ r14.panic)
        THEN Append1(r14, s, "Alt")
        ELSE IF r1.ok \/ r1.panic THEN r1
        ELSE IF r2.ok \/ r2.panic THEN r2
        ELSE IF r3.ok \/ r3.panic THEN r3
        ELSE IF r4.ok \/ r4.panic THEN r4
        ELSE IF r5.ok \/ r5.panic THEN r5
        ELSE IF r6.ok \/ r6.panic THEN r6
        ELSE IF r7.ok \/ r7.panic THEN r7
        ELSE IF r8.ok \/ r8.panic THEN r8
        ELSE IF r9.ok \/ r9.panic THEN r9
        ELSE IF r10.ok \/ r10.panic THEN r10
        ELSE IF r11.ok \/ r11.panic THEN r11
        ELSE IF r12.ok \/ r12.panic THEN r12
        ELSE IF r13.ok \/ r13.panic THEN r13
        ELSE r14

----------------------------------------------------------------------------
(* Declarations                                                            *)

NLArgument(name, nl_type) == [name |-> name, nl_type |-> nl_type]

NLStructVariable(name, my_type) == [name |-> name, my_type |-> my_type]

NLFunction(name, arguments, return_type, block) ==
    [name |-> name, arguments |-> arguments, return_type |-> return_type, block |-> block]

Method(function) == [implementor |-> "Method", item |-> function]

Getter(name, args, nl_type, block) ==
    [implementor |-> "Getter",
     item |-> [name |-> name, args |-> args, nl_type |-> nl_type, block |-> block]]

Setter(name, args, block) ==
    [implementor |-> "Setter", item |-> [name |-> name, args |-> args, block |-> block]]

EncapsulationSome(block) == [state |-> "Some", block |-> block]

EncapsulationNone == [state |-> "None", block |-> <<>>]

EncapsulationDefault == [state |-> "Default", block |-> <<>>]

NLImplementation(name, implementors) == [name |-> name, implementors |-> implementors]

EnumVariant(name, arguments) == [name |-> name, arguments |-> arguments]

RootDeceleration(kind, item) == [kind |-> kind, item |-> item]

(* An argument reader that allows no blanks inside the self argument.      *)
argument_declaration_without_blanks(s) ==
    LET s1 == call("blank", <<s>>).rest
        name == Opt(call("read_variable_name", <<s1>>), s1)
        colon == call("char", <<call("blank", <<name.rest>>).rest, ":">>)
        nl_type == call("read_variable_type", <<call("blank", <<colon.rest>>).rest>>)
        amp == Opt(call("char", <<s1, "&">>), s1)
        self == Opt(call("tag", <<amp.rest, "self">>), amp.rest)
        mut == Opt(call("tag", <<self.rest, "mut">>), self.rest)
        mut_self == call("tag", <<mut.rest, "self">>)
    IN  IF ~name.ok THEN name
        ELSE IF name.val.some
        THEN IF ~colon.ok THEN colon
             ELSE IF ~nl_type.ok THEN nl_type
             ELSE Ok(call("blank", <<nl_type.rest>>).rest, NLArgument(name.val.v, nl_type.val))
        ELSE IF ~amp.ok THEN amp
        ELSE IF amp.val.some /\ self.val.some
        THEN Ok(self.rest, NLArgument("self", NLType("SelfReference")))
        ELSE IF amp.val.some /\ mut.val.some
        THEN IF ~mut_self.ok THEN mut_self
             ELSE Ok(mut_self.rest, NLArgument("self", NLType("MutableSelfReference")))
        ELSE IF s1 # ""
        THEN verbose_error(s1, "could not read deceleration of argument correctly")
        ELSE verbose_error(s1, "there is no argument")

read_argument_declaration(s) ==
    LET s1 == call("blank", <<s>>).rest
        name == Opt(call("read_variable_name", <<s1>>), s1)
        colon == call("char", <<call("blank", <<name.rest>>).rest, ":">>)
        nl_type == call("read_variable_type", <<call("blank", <<colon.rest>>).rest>>)
        amp == Opt(call("char", <<s1, "&">>), s1)
        s2 == call("blank", <<amp.rest>>).rest
        self == Opt(call("tag", <<s2, "self">>), s2)
        mut == Opt(call("tag", <<self.rest, "mut">>), self.rest)
        mut_self == call("tag", <<call("blank", <<mut.rest>>).rest, "self">>)
    IN  IF ~name.ok THEN name
        ELSE IF name.val.some
        THEN IF ~colon.ok THEN colon
             ELSE IF ~nl_type.ok THEN nl_type
             ELSE Ok(call("blank", <<nl_type.rest>>).rest, NLArgument(name.val.v, nl_type.val))
        ELSE IF ~amp.ok THEN amp
        ELSE IF amp.val.some /\ ~self.ok THEN self
        ELSE IF amp.val.some /\ self.val.some
        THEN Ok(self.rest, NLArgument("self", NLType("SelfReference")))
        ELSE IF amp.val.some /\ ~mut.ok THEN mut
        ELSE IF amp.val.some /\ mut.val.some
        THEN IF ~mut_self.ok THEN mut_self
             ELSE Ok(mut_self.rest, NLArgument("self", NLType("MutableSelfReference")))
        ELSE IF s1 # ""
        THEN verbose_error(s1, "could not read deceleration of argument correctly")
        ELSE verbose_error(s1, "there is no argument")

RECURSIVE read_arguments(_, _)
(* many0(terminated(read_argument_declaration, char(',')))                 *)
read_arguments(s, acc) ==
    LET a == call("read_argument_declaration", <<s>>)
        c == call("char", <<a.rest, ",">>)
    IN  IF a.ok /\ c.ok THEN read_arguments(c.rest, Append(acc, a.val))
        ELSE Ok(s, acc)

read_argument_deceleration_list(s) ==
    LET d == call("delimited_until", <<s, "(", ")">>)
        arguments == call("read_arguments", <<d.val, <<>>>>)
        last_arg == Opt(call("read_argument_declaration", <<arguments.rest>>), arguments.rest)
    IN  IF ~d.ok THEN d
        ELSE IF ~arguments.ok THEN arguments
        ELSE IF ~last_arg.ok THEN last_arg
        ELSE IF last_arg.val.some THEN Ok(d.rest, Append(arguments.val, last_arg.val.v))
        ELSE Ok(d.rest, arguments.val)

read_return_type(s) ==
    LET s1 == call("blank", <<s>>).rest
        tagged == Opt(call("tag", <<s1, "->">>), s1)
        nl_type == call("read_variable_type", <<call("blank", <<tagged.rest>>).rest>>)
    IN  IF ~tagged.ok THEN tagged
        ELSE IF ~tagged.val.some THEN Ok(tagged.rest, NLType("None"))
        ELSE IF ~nl_type.ok THEN nl_type
        ELSE Ok(call("blank", <<nl_type.rest>>).rest, nl_type.val)

(* A signature that may end without a body and without a semicolon.        *)
signature_without_semicolon(s) ==
    LET name == call("read_method_name", <<call("blank", <<s>>).rest>>)
        args == call("read_argument_deceleration_list", <<call("blank", <<name.rest>>).rest>>)
        return_type == call("read_return_type", <<call("blank", <<args.rest>>).rest>>)
        s1 == call("blank", <<return_type.rest>>).rest
        block == Opt(call("read_code_block", <<s1>>), s1)
    IN  IF ~name.ok THEN name
        ELSE IF ~args.ok THEN args
        ELSE IF ~return_type.ok THEN return_type
        ELSE IF ~block.ok THEN block
        ELSE IF block.val.some
        THEN Ok(block.rest,
                NLFunction(name.val, args.val, return_type.val, Some(block.val.v.operations)))
        ELSE Ok(block.rest, NLFunction(name.val, args.val, return_type.val, None))

(* The common part of read_method and read_function after the keyword.     *)
read_signature_and_body(s) ==
    LET name == call("read_method_name", <<call("blank", <<s>>).rest>>)
        args == call("read_argument_deceleration_list", <<call("blank", <<name.rest>>).rest>>)
        return_type == call("read_return_type", <<call("blank", <<args.rest>>).rest>>)
        s1 == call("blank", <<return_type.rest>>).rest
        block == Opt(call("read_code_block", <<s1>>), s1)
        semicolon == call("char", <<block.rest, ";">>)
    IN  IF ~name.ok THEN name
        ELSE IF ~args.ok THEN args
        ELSE IF ~return_type.ok THEN return_type
        ELSE IF ~block.ok THEN block
        ELSE IF block.val.some
        THEN Ok(block.rest,
                NLFunction(name.val, args.val, return_type.val, Some(block.val.v.operations)))
        ELSE IF ~semicolon.ok THEN semicolon
        ELSE Ok(semicolon.rest, NLFunction(name.val, args.val, return_type.val, None))

read_method(s) ==
    LET met == call("tag", <<call("blank", <<s>>).rest, "met">>)
        method == call("read_signature_and_body", <<met.rest>>)
    IN  IF ~met.ok THEN met
        ELSE IF ~method.ok THEN method
        ELSE Ok(method.rest, Method(method.val))

read_function(s) ==
    LET fn == call("tag", <<call("blank", <<s>>).rest, "fn">>)
        function == call("read_signature_and_body", <<fn.rest>>)
    IN  IF ~fn.ok THEN fn
        ELSE IF ~function.ok THEN function
        ELSE Ok(function.rest, RootDeceleration("Function", function.val))

read_variant(s) ==
    LET name == call("read_variable_name", <<call("blank", <<s>>).rest>>)
        s1 == call("blank", <<name.rest>>).rest
        args == Opt(call("read_argument_deceleration_list", <<s1>>), s1)
    IN  IF ~name.ok THEN name
        ELSE IF ~args.ok THEN args
        ELSE IF args.val.some THEN Ok(args.rest, EnumVariant(name.val, args.val.v))
        ELSE Ok(args.rest, EnumVariant(name.val, <<>>))

RECURSIVE read_variants(_, _)
(* many0(terminated(read_variant, char(',')))                              *)
read_variants(s, acc) ==
    LET v == call("read_variant", <<s>>)
        c == call("char", <<v.rest, ",">>)
    IN  IF v.ok /\ c.ok THEN read_variants(c.rest, Append(acc, v.val))
        ELSE Ok(s, acc)

read_variant_enum(s) ==
    LET enum == call("tag", <<call("blank", <<s>>).rest, "enum">>)
        name == call("read_method_name", <<call("blank", <<enum.rest>>).rest>>)
        open == call("char", <<call("blank", <<name.rest>>).rest, "{">>)
        variants == call("read_variants", <<call("blank", <<open.rest>>).rest, <<>>>>)
        s1 == call("blank", <<variants.rest>>).rest
        last_variant == Opt(call("read_variant", <<s1>>), s1)
        all == IF last_variant.val.some THEN Append(variants.val, last_variant.val.v)
               ELSE variants.val
        close == call("char", <<call("blank", <<last_variant.rest>>).rest, "}">>)
    IN  IF ~enum.ok THEN enum
        ELSE IF ~name.ok THEN name
        ELSE IF ~open.ok THEN open
        ELSE IF ~variants.ok THEN variants
        ELSE IF ~last_variant.ok THEN last_variant
        ELSE IF ~close.ok THEN close
        ELSE Ok(close.rest, RootDeceleration("Enum", [name |-> name.val, variants |-> all]))

(* A marker that is never recognised.                                      *)
no_default_marker(s) == NomError(s, "Char")

(* opt(tuple((char(':'), blank, tag("default"), blank)))                   *)
default_marker(s) ==
    LET colon == call("char", <<s, ":">>)
        default == call("tag", <<call("blank", <<colon.rest>>).rest, "default">>)
    IN  IF ~colon.ok THEN colon
        ELSE IF ~default.ok THEN default
        ELSE Ok(call("blank", <<default.rest>>).rest, "default")

read_getter(s) ==
    LET get == call("tag", <<call("blank", <<s>>).rest, "get">>)
        name == call("read_method_name", <<get.rest>>)
        s1 == call("blank", <<name.rest>>).rest
        is_default == Opt(call("default_marker", <<s1>>), s1)
        default_type == call("read_return_type", <<is_default.rest>>)
        default_end == call("char", <<default_type.rest, ";">>)
        args == call("read_argument_deceleration_list", <<is_default.rest>>)
        nl_type == call("read_return_type", <<args.rest>>)
        block == Opt(call("read_code_block", <<nl_type.rest>>), nl_type.rest)
        semicolon == call("char", <<block.rest, ";">>)
    IN  IF ~get.ok THEN get
        ELSE IF ~name.ok THEN name
        ELSE IF ~is_default.ok THEN is_default
        ELSE IF is_default.val.some
        THEN IF ~default_type.ok THEN default_type
             ELSE IF ~default_end.ok THEN default_end
             ELSE Ok(default_end.rest,
                     Getter(name.val, <<>>, default_type.val, EncapsulationDefault))
        ELSE IF ~args.ok THEN args
        ELSE IF ~nl_type.ok THEN nl_type
        ELSE IF ~block.ok THEN block
        ELSE IF block.val.some
        THEN Ok(block.rest,
                Getter(name.val, args.val, nl_type.val,
                       EncapsulationSome(block.val.v.operations)))
        ELSE IF ~semicolon.ok THEN semicolon
        ELSE Ok(semicolon.rest, Getter(name.val, args.val, nl_type.val, EncapsulationNone))

read_setter(s) ==
    LET set == call("tag", <<call("blank", <<s>>).rest, "set">>)
        name == call("read_method_name", <<set.rest>>)
        s1 == call("blank", <<name.rest>>).rest
        marker == call("default_marker", <<s1>>)
        is_default == Opt(IF marker.ok THEN call("char", <<marker.rest, ";">>) ELSE marker, s1)
        args == call("read_argument_deceleration_list", <<is_default.rest>>)
        s2 == call("blank", <<args.rest>>).rest
        block == Opt(call("read_code_block", <<s2>>), s2)
        semicolon == call("char", <<block.rest, ";">>)
    IN  IF ~set.ok THEN set
        ELSE IF ~name.ok THEN name
        ELSE IF ~is_default.ok THEN is_default
        ELSE IF is_default.val.some
        THEN Ok(is_default.rest, Setter(name.val, <<>>, EncapsulationDefault))
        ELSE IF ~args.ok THEN args
        ELSE IF ~block.ok THEN block
        ELSE IF block.val.some
        THEN Ok(block.rest,
                Setter(name.val, args.val, EncapsulationSome(block.val.v.operations)))
        ELSE IF ~semicolon.ok THEN semicolon
        ELSE Ok(semicolon.rest, Setter(name.val, args.val, EncapsulationNone))

read_implementor(s) ==
    LET m == call("read_method", <<s>>)
        g == call("read_getter", <<s>>)
        t == call("read_setter", <<s>>)
    IN  IF m.ok \/ m.panic THEN m
        ELSE IF g.ok \/ g.panic THEN g
        ELSE IF t.ok \/ t.panic THEN t
        ELSE Append1(t, s, "Alt")

RECURSIVE read_implementors(_, _)
(* many0(alt((read_method, read_getter, read_setter)))                     *)
read_implementors(s, acc) ==
    LET i == call("read_implementor", <<s>>)
    IN  IF i.panic THEN i
        ELSE IF ~i.ok THEN Ok(s, acc)
        ELSE IF i.rest = s THEN NomError(s, "Many0")
        ELSE read_implementors(i.rest, Append(acc, i.val))

read_trait(s) ==
    LET trait == call("tag", <<call("blank", <<s>>).rest, "trait">>)
        name == call("read_struct_or_trait_name", <<call("blank", <<trait.rest>>).rest>>)
        open == call("char", <<call("blank", <<name.rest>>).rest, "{">>)
        implementors == call("read_implementors", <<call("blank", <<open.rest>>).rest, <<>>>>)
        close == call("char", <<call("blank", <<implementors.rest>>).rest, "}">>)
    IN  IF ~trait.ok THEN trait
        ELSE IF ~name.ok THEN name
        ELSE IF ~open.ok THEN open
        ELSE IF ~implementors.ok THEN implementors
        ELSE IF ~close.ok THEN close
        ELSE Ok(close.rest,
                RootDeceleration("Trait", [name |-> name.val, implementors |-> implementors.val]))

read_struct_variable(s) ==
    LET name == call("read_variable_name", <<call("blank", <<s>>).rest>>)
        colon == call("char", <<call("blank", <<name.rest>>).rest, ":">>)
        nl_type == call("read_variable_type", <<call("blank", <<colon.rest>>).rest>>)
    IN  IF ~name.ok THEN name
        ELSE IF ~colon.ok THEN colon
        ELSE IF ~nl_type.ok THEN nl_type
        ELSE Ok(nl_type.rest, NLStructVariable(name.val, nl_type.val))

RECURSIVE read_struct_variables(_, _)
(* many0(terminated(read_struct_variable, tuple((blank, char(',')))))      *)
read_struct_variables(s, acc) ==
    LET v == call("read_struct_variable", <<s>>)
        c == call("char", <<call("blank", <<v.rest>>).rest, ",">>)
    IN  IF v.ok /\ c.ok THEN read_struct_variables(c.rest, Append(acc, v.val))
        ELSE Ok(s, acc)

read_implementation(s) ==
    LET impl == call("tag", <<call("blank", <<s>>).rest, "impl">>)
        name == call("read_struct_or_trait_name", <<impl.rest>>)
        open == call("char", <<name.rest, "{">>)
        methods == call("read_implementors", <<call("blank", <<open.rest>>).rest, <<>>>>)
        close == call("char", <<call("blank", <<methods.rest>>).rest, "}">>)
    IN  IF ~impl.ok THEN impl
        ELSE IF ~name.ok THEN name
        ELSE IF ~open.ok THEN open
        ELSE IF ~methods.ok THEN methods
        ELSE IF ~close.ok THEN close
        ELSE Ok(close.rest, NLImplementation(name.val, methods.val))

RECURSIVE read_implementations(_, _)
(* many0(read_implementation)                                              *)
read_implementations(s, acc) ==
    LET i == call("read_implementation", <<s>>)
    IN  IF i.panic THEN i
        ELSE IF ~i.ok THEN Ok(s, acc)
        ELSE IF i.rest = s THEN NomError(s, "Many0")
        ELSE read_implementations(i.rest, Append(acc, i.val))

(* A struct whose variables must each be followed by a comma.              *)
struct_requiring_commas(s) ==
    LET struct == call("tag", <<call("blank", <<s>>).rest, "struct">>)
        name == call("read_struct_or_trait_name", <<call("blank", <<struct.rest>>).rest>>)
        open == call("char", <<call("blank", <<name.rest>>).rest, "{">>)
        variables == call("read_struct_variables", <<call("blank", <<open.rest>>).rest, <<>>>>)
        close == call("char", <<call("blank", <<variables.rest>>).rest, "}">>)
        implementations == call("read_implementations", <<close.rest, <<>>>>)
    IN  IF ~struct.ok THEN struct
        ELSE IF ~name.ok THEN name
        ELSE IF ~open.ok THEN open
        ELSE IF ~variables.ok THEN variables
        ELSE IF ~close.ok THEN close
        ELSE IF ~implementations.ok THEN implementations
        ELSE Ok(implementations.rest,
                RootDeceleration("Struct",
                    [name |-> name.val, variables |-> variables.val,
                     implementations |-> implementations.val]))

read_struct(s) ==
    LET struct == call("tag", <<call("blank", <<s>>).rest, "struct">>)
        name == call("read_struct_or_trait_name", <<call("blank", <<struct.rest>>).rest>>)
        open == call("char", <<call("blank", <<name.rest>>).rest, "{">>)
        variables == call("read_struct_variables", <<call("blank", <<open.rest>>).rest, <<>>>>)
        s1 == call("blank", <<variables.rest>>).rest
        last_var == Opt(call("read_struct_variable", <<s1>>), s1)
        all == IF last_var.val.some THEN Append(variables.val, last_var.val.v)
               ELSE variables.val
        close == call("char", <<call("blank", <<last_var.rest>>).rest, "}">>)
        implementations == call("read_implementations", <<close.rest, <<>>>>)
    IN  IF ~struct.ok THEN struct
        ELSE IF ~name.ok THEN name
        ELSE IF ~open.ok THEN open
        ELSE IF ~variables.ok THEN variables
        ELSE IF ~last_var.ok THEN last_var
        ELSE IF ~close.ok THEN close
        ELSE IF ~implementations.ok THEN implementations
        ELSE Ok(implementations.rest,
                RootDeceleration("Struct",
                    [name |-> name.val, variables |-> all,
                     implementations |-> implementations.val]))

----------------------------------------------------------------------------
(* File root                                                               *)

NLFile(name, structs, traits, functions, enums) ==
    [name |-> name, structs |-> structs, traits |-> traits,
     functions |-> functions, enums |-> enums]

read_root_deceleration(s) ==
    LET r1 == call("read_struct", <<s>>)
        r2 == call("read_trait", <<s>>)
        r3 == call("read_function", <<s>>)
        r4 == call("read_variant_enum", <<s>>)
    IN  IF r1.ok \/ r1.panic THEN r1
        ELSE IF r2.ok \/ r2.panic THEN r2
        ELSE IF r3.ok \/ r3.panic THEN r3
        ELSE IF r4.ok \/ r4.panic THEN r4
        ELSE Append1(r4, s, "Alt")

RECURSIVE read_root_decelerations(_, _)
(* many1(alt((read_struct, read_trait, read_function, read_variant_enum))) *)
read_root_decelerations(s, acc) ==
    LET d == call("read_root_deceleration", <<s>>)
    IN  IF d.panic THEN d
        ELSE IF ~d.ok THEN (IF acc = <<>> THEN Append1(d, s, "Many1") ELSE Ok(s, acc))
        ELSE IF acc # <<>> /\ d.rest = s THEN NomError(s, "Many1")
        ELSE read_root_decelerations(d.rest, Append(acc, d.val))

RECURSIVE NewestFirst(_, _)
(* A dispatch that puts each declaration in front of its list.             *)
NewestFirst(root_defs, kind) ==
    IF root_defs = <<>> THEN <<>>
    ELSE IF Head(root_defs).kind = kind
    THEN NewestFirst(Tail(root_defs), kind) \o <<Head(root_defs).item>>
    ELSE NewestFirst(Tail(root_defs), kind)

RECURSIVE OfKind(_, _)
(* The items of the root declarations of one kind, in order.               *)
OfKind(root_defs, kind) ==
    IF root_defs = <<>> THEN <<>>
    ELSE IF Head(root_defs).kind = kind
    THEN <<Head(root_defs).item>> \o OfKind(Tail(root_defs), kind)
    ELSE OfKind(Tail(root_defs), kind)

(* A root without the early return for the empty input.                    *)
root_without_empty_case(s) ==
    LET root_defs == call("read_root_decelerations", <<s, <<>>>>)
    IN  IF ~root_defs.ok THEN root_defs
        ELSE Ok(root_defs.rest,
                NLFile("", OfKind(root_defs.val, "Struct"), OfKind(root_defs.val, "Trait"),
                       OfKind(root_defs.val, "Function"), OfKind(root_defs.val, "Enum")))

parse_file_root(s) ==
    LET root_defs == call("read_root_decelerations", <<s, <<>>>>)
    IN  IF s = "" THEN Ok(s, NLFile("", <<>>, <<>>, <<>>, <<>>))
        ELSE IF ~root_defs.ok THEN root_defs
        ELSE Ok(root_defs.rest,
                NLFile("", OfKind(root_defs.val, "Struct"), OfKind(root_defs.val, "Trait"),
                       OfKind(root_defs.val, "Function"), OfKind(root_defs.val, "Enum")))

(* The item parser of each repetition of the grammar, applied at s.         *)
repetition_item(repetition, s) ==
    CASE repetition = "read_comments" ->
            LET c == call("read_comment", <<s>>) IN terminated(c, call("multispace0", <<c.rest>>))
      [] repetition = "read_operations" -> call("read_operation", <<s>>)
      [] repetition = "read_branches" ->
            LET b == call("read_branch", <<s>>) IN terminated(b, call("char", <<b.rest, ",">>))
      [] repetition = "read_variants" ->
            LET v == call("read_variant", <<s>>) IN terminated(v, call("char", <<v.rest, ",">>))
      [] repetition = "read_implementors" -> call("read_implementor", <<s>>)
      [] repetition = "read_struct_variables" ->
            LET v == call("read_struct_variable", <<s>>)
            IN  terminated(v, call("char", <<call("blank", <<v.rest>>).rest, ",">>))
      [] repetition = "read_implementations" -> call("read_implementation", <<s>>)
      [] repetition = "read_root_decelerations" -> call("read_root_deceleration", <<s>>)

(* The production named p applied to the arguments a.  The arguments are   *)
(* values: they are evaluated before the production is entered.           *)
call(p, a) ==
    CASE Len(a) = 0 -> Nil
      [] p = "tag" -> tag(a[1], a[2])
      [] p = "char" -> char(a[1], a[2])
      [] p = "one_of" -> one_of(a[1], a[2])
      [] p = "take_while" -> take_while(a[1], a[2])
      [] p = "take_while1" -> take_while1(a[1], a[2])
      [] p = "take_until" -> take_until(a[1], a[2])
      [] p = "multispace0" -> multispace0(a[1])
      [] p = "alpha1" -> alpha1(a[1])
      [] p = "alphanumeric0" -> alphanumeric0(a[1])
      [] p = "alphanumeric1" -> alphanumeric1(a[1])
      [] p = "digit1" -> digit1(a[1])
      [] p = "delimited_until" -> delimited_until(a[1], a[2], a[3])
      [] p = "read_comment" -> read_comment(a[1])
      [] p = "read_comments_rest" -> read_comments_rest(a[1])
      [] p = "read_comments" -> read_comments(a[1])
      [] p = "blank" -> blank(a[1])
      [] p = "read_struct_or_trait_name" -> read_struct_or_trait_name(a[1])
      [] p = "read_method_name" -> read_method_name(a[1])
      [] p = "read_variable_name" -> read_variable_name(a[1])
      [] p = "read_variable_type_primitive_no_whitespace" -> read_variable_type_primitive_no_whitespace(a[1])
      [] p = "identify_struct_or_trait_type" -> identify_struct_or_trait_type(a[1])
      [] p = "read_advanced_types" -> read_advanced_types(a[1])
      [] p = "read_variable_type_no_whitespace" -> read_variable_type_no_whitespace(a[1])
      [] p = "read_variable_type" -> read_variable_type(a[1])
      [] p = "from_str_radix_digits" -> from_str_radix_digits(a[1], a[2], a[3], a[4], a[5])
      [] p = "from_str_radix" -> from_str_radix(a[1], a[2], a[3])
      [] p = "parse_number" -> parse_number(a[1])
      [] p = "digits_run" -> digits_run(a[1], a[2])
      [] p = "parse_decimal" -> parse_decimal(a[1])
      [] p = "prefixed_integer" -> prefixed_integer(a[1], a[2], a[3], a[4], a[5])
      [] p = "parse_hexadecimal" -> parse_hexadecimal(a[1])
      [] p = "parse_octal" -> parse_octal(a[1])
      [] p = "parse_binary" -> parse_binary(a[1])
      [] p = "parse_integer" -> parse_integer(a[1])
      [] p = "float_decimal" -> float_decimal(a[1])
      [] p = "float_exponent" -> float_exponent(a[1])
      [] p = "parse_float" -> parse_float(a[1])
      [] p = "read_boolean_constant" -> read_boolean_constant(a[1])
      [] p = "read_float_constant" -> read_float_constant(a[1], a[2])
      [] p = "integer_constant_assuming_i64" -> integer_constant_assuming_i64(a[1])
      [] p = "read_integer_constant" -> read_integer_constant(a[1])
      [] p = "read_numerical_constant" -> read_numerical_constant(a[1])
      [] p = "read_string_constant" -> read_string_constant(a[1])
      [] p = "read_constant_raw" -> read_constant_raw(a[1])
      [] p = "comma_separator" -> comma_separator(a[1])
      [] p = "read_names_loose" -> read_names_loose(a[1], a[2])
      [] p = "read_tuple_of_variable_names" -> read_tuple_of_variable_names(a[1])
      [] p = "read_names_tight" -> read_names_tight(a[1], a[2])
      [] p = "read_name_list" -> read_name_list(a[1])
      [] p = "read_single_variable" -> read_single_variable(a[1])
      [] p = "read_constant" -> read_constant(a[1])
      [] p = "read_break_keyword" -> read_break_keyword(a[1])
      [] p = "read_variable_access_raw" -> read_variable_access_raw(a[1])
      [] p = "read_variable_access" -> read_variable_access(a[1])
      [] p = "read_function_call" -> read_function_call(a[1])
      [] p = "read_tuple_items" -> read_tuple_items(a[1], a[2])
      [] p = "read_tuple" -> read_tuple(a[1])
      [] p = "read_assignment" -> read_assignment(a[1])
      [] p = "take_operator_symbol" -> take_operator_symbol(a[1])
      [] p = "read_urinary_operator" -> read_urinary_operator(a[1])
      [] p = "binary_operator_with_chaining" -> binary_operator_with_chaining(a[1])
      [] p = "read_binary_operator" -> read_binary_operator(a[1])
      [] p = "read_if_statement" -> read_if_statement(a[1])
      [] p = "read_basic_loop" -> read_basic_loop(a[1])
      [] p = "read_while_loop" -> read_while_loop(a[1])
      [] p = "read_for_loop" -> read_for_loop(a[1])
      [] p = "read_branch_body" -> read_branch_body(a[1])
      [] p = "read_enum_branch" -> read_enum_branch(a[1])
      [] p = "read_constant_branch" -> read_constant_branch(a[1])
      [] p = "read_range_branch" -> read_range_branch(a[1])
      [] p = "read_branch" -> read_branch(a[1])
      [] p = "read_branches" -> read_branches(a[1], a[2])
      [] p = "match_requiring_commas" -> match_requiring_commas(a[1])
      [] p = "read_match" -> read_match(a[1])
      [] p = "read_operations" -> read_operations(a[1], a[2])
      [] p = "read_code_block_raw" -> read_code_block_raw(a[1])
      [] p = "read_code_block" -> read_code_block(a[1])
      [] p = "read_sub_operation" -> read_sub_operation(a[1])
      [] p = "read_operation" -> read_operation(a[1])
      [] p = "argument_declaration_without_blanks" -> argument_declaration_without_blanks(a[1])
      [] p = "read_argument_declaration" -> read_argument_declaration(a[1])
      [] p = "read_arguments" -> read_arguments(a[1], a[2])
      [] p = "read_argument_deceleration_list" -> read_argument_deceleration_list(a[1])
      [] p = "read_return_type" -> read_return_type(a[1])
      [] p = "signature_without_semicolon" -> signature_without_semicolon(a[1])
      [] p = "read_signature_and_body" -> read_signature_and_body(a[1])
      [] p = "read_method" -> read_method(a[1])
      [] p = "read_function" -> read_function(a[1])
      [] p = "read_variant" -> read_variant(a[1])
      [] p = "read_variants" -> read_variants(a[1], a[2])
      [] p = "read_variant_enum" -> read_variant_enum(a[1])
      [] p = "no_default_marker" -> no_default_marker(a[1])
      [] p = "default_marker" -> default_marker(a[1])
      [] p = "read_getter" -> read_getter(a[1])
      [] p = "read_setter" -> read_setter(a[1])
      [] p = "read_implementor" -> read_implementor(a[1])
      [] p = "read_implementors" -> read_implementors(a[1], a[2])
      [] p = "read_trait" -> read_trait(a[1])
      [] p = "read_struct_variable" -> read_struct_variable(a[1])
      [] p = "read_struct_variables" -> read_struct_variables(a[1], a[2])
      [] p = "read_implementation" -> read_implementation(a[1])
      [] p = "read_implementations" -> read_implementations(a[1], a[2])
      [] p = "struct_requiring_commas" -> struct_requiring_commas(a[1])
      [] p = "read_struct" -> read_struct(a[1])
      [] p = "read_root_deceleration" -> read_root_deceleration(a[1])
      [] p = "read_root_decelerations" -> read_root_decelerations(a[1], a[2])
      [] p = "root_without_empty_case" -> root_without_empty_case(a[1])
      [] p = "parse_file_root" -> parse_file_root(a[1])
      [] p = "repetition_item" -> repetition_item(a[1], a[2])

(* Result<NLFile, ParseError>: the remaining input of the root is dropped. *)
parse_string(s, name) ==
    LET file == call("parse_file_root", <<s>>)
    IN  IF file.ok THEN [file EXCEPT !.rest = "", !.val.name = name]
        ELSE [file EXCEPT !.rest = ""]

----------------------------------------------------------------------------------------------------------------------------------------------
(* Inputs.  An input text is the concatenation of parts; a part records    *)
(* the role its text plays and, where useful, what it denotes.             *)

MaxDecls == 2

MaxNames == 2

MaxTypes == 2

Part(role, text, note) == [role |-> role, text |-> text, note |-> note]

RECURSIVE Concat(_)
Concat(ps) == IF ps = <<>> THEN "" ELSE Head(ps).text \o Concat(Tail(ps))

SeqsUpTo(S, n) == UNION {[1..k -> S] : k \in 0..n}

(* Root declarations: the note is the declared name.                       *)
ValidDecelerations ==
    {Part("Struct", "struct A {}", "A"), Part("Struct", " struct B { a: i32 }\n", "B"),
     Part("Trait", "trait T {}", "T"), Part("Function", "fn f();", "f"),
     Part("Function", "\nfn g() { 5 } ", "g"), Part("Enum", "enum E { X }", "E")}

GarbageTokens == {Part("Garbage", "qqq", "")}

(* Declarations that fail after the production has committed to a form.    *)
CommittedFailures ==
    {Part("Failure", "fn h() { 5bool }", "number with a bool suffix"),
     Part("Failure", "fn h() { a =< b }", "unknown operator"),
     Part("Failure", "fn h(a b) {}", "malformed argument"),
     Part("Failure", "struct S { a: i32, b }", "malformed struct variable")}

RootParts == ValidDecelerations \cup GarbageTokens \cup CommittedFailures

(* Files of more declarations than MaxDecls, of mixed kinds.                *)
LongerFiles ==
    {<<Part("Function", "fn f();", "f"), Part("Struct", "struct A {}", "A"),
       Part("Function", "\nfn g() { 5 } ", "g")>>,
     <<Part("Enum", "enum E { X }", "E"), Part("Trait", "trait T {}", "T"),
       Part("Struct", " struct B { a: i32 }\n", "B"), Part("Function", "fn f();", "f"),
       Part("Struct", "struct A {}", "A")>>}

MaxVariables == 2

MaxImpls == 2

(* Struct variables and implementation blocks: the note is what the text   *)
(* declares.                                                               *)
StructVariables ==
    {Part("variable", " a: i32", NLStructVariable("a", NLType("I32"))),
     Part("variable", " b : f64", NLStructVariable("b", NLType("F64"))),
     Part("variable", "\n\tpos: &mut Foo",
          NLStructVariable("pos", NamedType("MutableReferencedStruct", "Foo")))}

Implementations ==
    {Part("impl", " impl MyStruct {}", NLImplementation("MyStruct", <<>>)),
     Part("impl", "\nimpl Self { met m(&self); }",
          NLImplementation("Self",
              <<Method(NLFunction("m", <<NLArgument("self", NLType("SelfReference"))>>,
                                  NLType("None"), None))>>))}

(* struct MyStruct { n1: T1, ..., nk: Tk } with the text that follows the  *)
(* last variable, then the implementation blocks.                          *)
StructInput(variables, last, impls) ==
    <<Part("struct", "struct MyStruct {", "MyStruct")>>
    \o [i \in 1..Len(variables) |->
            [variables[i] EXCEPT !.text = @ \o (IF i < Len(variables) THEN "," ELSE last)]]
    \o <<Part("close", " }", "")>>
    \o impls

StructInputs ==
    {StructInput(variables, last, impls) :
        variables \in SeqsUpTo(StructVariables, MaxVariables) \ {<<>>},
        last \in {"", ","}, impls \in SeqsUpTo(Implementations, MaxImpls)}
    \cup {StructInput(<<>>, "", impls) : impls \in SeqsUpTo(Implementations, MaxImpls)}

(* Files that hold no declaration, only whitespace and complete comments.   *)
TriviaFileTexts == {" ", "\n", "\t \n", "// c\n", "/* c */", " /* c */ \n", "// a\n// b\n"}

TriviaFiles == {<<Part("TriviaFile", t, "")>> : t \in TriviaFileTexts}

RootInputs ==
    SeqsUpTo(RootParts, MaxDecls) \cup LongerFiles \cup StructInputs \cup TriviaFiles

FileNames == {"test_file.nl", "other.nl"}

(* Numerals: the note is the magnitude the digits denote in their radix.   *)
Numeral(prefix, radix, digits, mag) ==
    [prefix |-> prefix, radix |-> radix, digits |-> digits, mag |-> mag]

DecimalNumerals ==
    {Numeral("", 10, "5", <<5>>), Numeral("", 10, "0", <<>>),
     Numeral("", 10, "007", <<7>>), Numeral("", 10, "128", <<128>>),
     Numeral("", 10, "129", <<129>>), Numeral("", 10, "256", <<256>>),
     Numeral("", 10, "300", <<300>>), Numeral("", 10, "1000", <<1000>>),
     Numeral("", 10, "2147483647", <<65535, 32767>>),
     Numeral("", 10, "2147483648", <<0, 32768>>),
     Numeral("", 10, "9223372036854775808", <<0, 0, 0, 32768>>),
     Numeral("", 10, "18446744073709551616", <<0, 0, 0, 0, 1>>)}

PrefixedNumerals ==
    {Numeral("0x", 16, "FF", <<255>>), Numeral("0X", 16, "1f", <<31>>),
     Numeral("0b", 2, "101", <<5>>), Numeral("0B", 2, "0", <<>>),
     Numeral("0o", 8, "17", <<15>>), Numeral("0O", 8, "400", <<256>>)}

SeparatedNumerals ==
    {Numeral("", 10, "1_000", <<1000>>), Numeral("", 10, "1__2_", <<12>>),
     Numeral("0x", 16, "F_F", <<255>>), Numeral("0b", 2, "1_01", <<5>>),
     Numeral("0o", 8, "1_7", <<15>>)}

IntegerSuffixes == {"i8", "i16", "i32", "i64", "u8", "u16", "u32", "u64"}

Suffixes == {""} \cup IntegerSuffixes \cup {"f32", "f64", "bool"}

(* An integer literal: sign (decimal only), radix prefix, digits, suffix.  *)
IntegerLiteral(sign, numeral, suffix) ==
    <<Part("sign", sign, ""), Part("prefix", numeral.prefix, numeral.radix),
      Part("digits", numeral.digits, numeral.mag), Part("suffix", suffix, "")>>

IntegerLiterals ==
    {IntegerLiteral(sign, numeral, suffix) :
        sign \in {"", "-"}, numeral \in DecimalNumerals, suffix \in Suffixes}
    \cup
    {IntegerLiteral("", numeral, suffix) :
        numeral \in PrefixedNumerals \cup SeparatedNumerals, suffix \in Suffixes}

(* Float literals: the note is the decimal <<mantissa, exponent>> denoted. *)
FloatTexts ==
    {Part("float", "5.5", <<55, -1>>), Part("float", ".5", <<5, -1>>),
     Part("float", "5.", <<5, 0>>), Part("float", "5e3", <<5, 3>>),
     Part("float", "2.50E-2", <<25, -3>>), Part("float", "1_0.5", <<105, -1>>)}

FloatLiterals ==
    {<<Part("sign", sign, ""), text, Part("suffix", suffix, "")>> :
        sign \in {"", "-"}, text \in FloatTexts, suffix \in Suffixes}

ConstantInputs == IntegerLiterals \cup FloatLiterals

(* Names and operations for assignments.                                   *)
TargetNames == {"five", "letter", "numbers.five"}

NameTuples == SeqsUpTo({"fore", "let_go"}, MaxNames)

RECURSIVE JoinNames(_, _)
JoinNames(ns, separator) ==
    IF ns = <<>> THEN ""
    ELSE IF Len(ns) = 1 THEN Head(ns)
    ELSE Head(ns) \o separator \o JoinNames(Tail(ns), separator)

TupleTargets ==
    {Part("targets", "(" \o JoinNames(ns, separator) \o ")", ns) :
        ns \in NameTuples, separator \in {", ", " ,"}}

SingleTargets == {Part("targets", n, <<n>>) : n \in TargetNames}

LetParts == {Part("let", "", FALSE), Part("let", "let ", TRUE)}

TypeTexts == {"i32", "f64", "&mut Foo"}

TypeLists == SeqsUpTo(TypeTexts, MaxTypes)

Annotations ==
    {Part("types", IF ts = <<>> THEN "" ELSE ": " \o JoinNames(ts, ", "), ts) :
        ts \in TypeLists}

ValueTexts == {"5", "(4, 5)", "a + b"}

Values == {Part("value", " = " \o v \o ";", v) : v \in ValueTexts}

AssignmentInputs ==
    {<<l, t, a, v>> :
        l \in LetParts, t \in SingleTargets \cup TupleTargets, a \in Annotations, v \in Values}

DestructuringInputs ==
    {<<l, t, Part("types", "", <<>>), v>> : l \in LetParts, t \in TupleTargets, v \in Values}

OperationTexts ==
    {"{ break }", "if a { b } else { c }", "loop { break }", "while a < b { f(a) }",
     "for i in a .. b { let x = i; }", "match v { E::A => 1, E::B(x) => 2 }",
     "match v { 25..42 => 0, }", "a + b + c", "a =< b", "!a", "5-3", "f(a, b)",
     "m.f()", "\"text\"", "true", "(1, (2, 3))", "/* c */ x", "return",
     "a + -b", "-a * b", "a - { b / c }", "(a | b, c)", "x = a <= b", "f(x) .. 9",
     "if a < b { c % d }", "{ a && b + c }"}

(* The keyword break after trivia, alone and as the only operation of a    *)
(* block.                                                                  *)
Trivia == {"", " ", "\t", "\n  ", "/* c */ ", "// c\n"}

BreakInputs ==
    {<<Part("trivia", t, ""), Part("break", "break", "")>> : t \in Trivia}
    \cup
    {<<Part("open", "{", ""), Part("trivia", t, ""), Part("break", "break", ""),
       Part("close", close, "")>> : t \in Trivia, close \in {"}", " }"}}

OperationInputs ==
    DestructuringInputs \cup BreakInputs
        \cup {<<Part("operation", t, "")>> : t \in OperationTexts}

(* Function calls: the note of a list of bare names is the names.          *)
ArgumentNames == SeqsUpTo({"a", "sum"}, MaxNames)

NameArguments ==
    {Part("names", JoinNames(ns, separator), ns) : ns \in ArgumentNames, separator \in {", ", ","}}

OtherArguments ==
    {Part("other", "1", ""), Part("other", "a b", ""), Part("other", "g(x)", ""),
     Part("other", "a, 2", ""), Part("other", "a + b", ""), Part("other", "\"text\"", "")}

FunctionCallInputs ==
    {<<Part("path", path, ""), Part("open", "(", ""), arguments, Part("close", ")", "")>> :
        path \in {"f", "m.g"}, arguments \in NameArguments \cup OtherArguments}

(* Signatures: the note of a return type is the type, the note of a body   *)
(* tells whether it is one.                                                *)
ReturnTypes ==
    {Part("return", "", NLType("None")), Part("return", " -> i32", NLType("I32")),
     Part("return", "->bool", NLType("Boolean")),
     Part("return", " -> &Foo", NamedType("ReferencedStruct", "Foo"))}

Endings ==
    {Part("body", " { 5 }", TRUE), Part("body", "{}", TRUE), Part("body", " { f(a) }  ", TRUE),
     Part("semicolon", ";", FALSE), Part("semicolon", " ;", FALSE),
     Part("nothing", "", FALSE), Part("nothing", " x", FALSE), Part("nothing", " fn", FALSE)}

SignatureInputs(keyword) ==
    {<<Part("keyword", keyword, ""), Part("name", name, ""), Part("args", args, ""), return, ending>> :
        name \in {"f", "get_x2"}, args \in {"()", "(a: i32)"},
        return \in ReturnTypes, ending \in Endings}

(* Getters and setters: name, then `: default` or an argument list, the    *)
(* return type of a getter, and the ending.                                *)
DefaultMarkers == {Part("default", ": default", ""), Part("default", " :\tdefault ", "")}

ArgumentLists == {Part("args", "()", ""), Part("args", " (&self)", "")}

Semicolons == {e \in Endings : e.role = "semicolon"}

Bodies == {e \in Endings : e.role = "body"}

EncapsulationInputs(keyword, returns) ==
    {<<Part("keyword", keyword, ""), Part("name", "x", ""), marker, return, ending>> :
        marker \in DefaultMarkers, return \in returns, ending \in Semicolons}
    \cup
    {<<Part("keyword", keyword, ""), Part("name", "x", ""), args, return, ending>> :
        args \in ArgumentLists, return \in returns, ending \in Semicolons \cup Bodies}

(* Argument lists holding the self argument: `(&`, blanks, an optional     *)
(* `mut` and blanks, `self)`.                                              *)
Blanks == {"", " ", "\t", "  ", " \t", "\n"}

SelfArgumentInputs ==
    {<<Part("open", "(&", ""), Part("space", b, ""), Part("mut", "", ""),
       Part("space", "", ""), Part("self", "self)", "")>> : b \in Blanks}
    \cup
    {<<Part("open", "(&", ""), Part("space", b1, ""), Part("mut", "mut", ""),
       Part("space", b2, ""), Part("self", "self)", "")>> : b1 \in Blanks, b2 \in Blanks}

(* Written types: a marker with the variant it denotes, then a name.       *)
TypeMarkers ==
    {Part("marker", "", "OwnedStruct"),
     Part("marker", "&", "ReferencedStruct"),
     Part("marker", "&mut ", "MutableReferencedStruct"),
     Part("marker", "dyn ", "OwnedTrait"),
     Part("marker", "&dyn ", "ReferencedTrait"),
     Part("marker", "&mut dyn ", "MutableReferencedTrait"),
     Part("marker", "& ", "ReferencedStruct"),
     Part("marker", "&  mut\tdyn  ", "MutableReferencedTrait")}

TypeNames == {"Foo", "A1", "i32x", "boolean", "u128", "mutable", "dynamic", "string"}

SelfTypeInputs ==
    {<<Part("marker", "&" \o b, "SelfReference"), Part("self", "self", "")>> :
        b \in {"", " "}}
    \cup
    {<<Part("marker", "&mut" \o b, "MutableSelfReference"), Part("self", "self", "")>> :
        b \in {" ", "\t"}}

VariableTypeInputs ==
    {<<marker, Part("name", n, "")>> : marker \in TypeMarkers, n \in TypeNames}
    \cup SelfTypeInputs \cup
    {<<Part("marker", "", "primitive"), Part("name", k, "")>> :
        k \in DOMAIN PrimitiveKeywords}

(* Names, written alone, for the three readers of names.                   *)
NameTexts == {"x", "ab", "A", "a_b", "_a", "My_Struct", "a1", "x2y", "1a", "get_x2"}

NameInputs == {<<Part("name", n, "")>> : n \in NameTexts}

(* Repetitions: the kind of each and texts that stand where it starts.     *)
RepetitionKinds ==
    [read_comments |-> "Many0Count", read_operations |-> "Many0", read_branches |-> "Many0",
     read_variants |-> "Many0", read_implementors |-> "Many0", read_struct_variables |-> "Many0",
     read_implementations |-> "Many0", read_root_decelerations |-> "Many1"]

RepetitionTexts ==
    [read_comments |-> {"", "x", "// a\n/* b */  x", "/* a *//* b */", "//\n//\n", "/* open"},
     read_operations |-> {" }", " a = 1; b = 2; }", "f(a) g(b) }", "5 true }", "{} {} x"},
     read_branches |-> {"}", "E::A => 1, E::B(x) => 2, }", "1 => a,2 => b }", "E::A => 1 }"},
     read_variants |-> {"}", "A, B(x: i32), }", "A,B }", "A }"},
     read_implementors |-> {"}", "met f(); get x: default; }", "met f() {} set x(v: i32); }"},
     read_struct_variables |-> {"}", "a: i32, b: bool, }", "a: i32 , b: &Foo }", "a i32, }"},
     read_root_decelerations |-> {"qqq", "struct A {} fn f() {} enum E {}", "fn f();trait T {}x"},
     read_implementations |-> {"", "impl A {} impl B { met f(); }", "impl A {}fn f();"}]

RepetitionInputs ==
    UNION {{<<Part(repetition, t, "")>> : t \in RepetitionTexts[repetition]} :
              repetition \in DOMAIN RepetitionKinds}

(* Parenthesised lists: the note is the number of entries written, or -1   *)
(* for a text that is no list (entries without a comma between them).      *)
TupleTexts ==
    {Part("list", "()", 0), Part("list", "(a)", 1), Part("list", "(1, 2)", 2),
     Part("list", "( a , b )", 2), Part("list", "(1 ,2,3)", 3), Part("list", "(f(x), 1)", 2),
     Part("list", "((1, 2), 3)", 2), Part("list", "(1 2)", -1)}

NameTupleTexts ==
    {Part("list", "()", 0), Part("list", "(a)", 1), Part("list", "(a, b)", 2),
     Part("list", "( a , b )", 2), Part("list", "(a ,b,c)", 3), Part("list", "(a b)", -1)}

ArgumentListTexts ==
    {Part("list", "()", 0), Part("list", "(&self)", 1), Part("list", "(a: i32)", 1),
     Part("list", "(&self, a: i32)", 2), Part("list", "(&self , a: i32)", 2),
     Part("list", "(a: i32 , b: bool)", 2), Part("list", "( a : i32,b : &Foo )", 2),
     Part("list", "(&mut self,a: i32, b: i32)", 3), Part("list", "(a: i32 b: bool)", -1)}

MaxBranches == 2

(* Match branches: the note is the branch the pattern denotes and the text  *)
(* of the body.                                                            *)
Branch(role, pattern, denoted, body) ==
    Part(role, " " \o pattern \o " => " \o body, [pattern |-> denoted, body |-> body])

EnumBranches ==
    {Branch("enum", "E::A", MatchEnumBranch("E", "A", <<>>), "1"),
     Branch("enum", "E::B(x)", MatchEnumBranch("E", "B", <<"x">>), "2"),
     Branch("enum", "Shape::Rect(w, h)", MatchEnumBranch("Shape", "Rect", <<"w", "h">>), "f(w)"),
     Branch("enum", "E :: C()", MatchEnumBranch("E", "C", <<>>), "x")}

RangeBranches ==
    {Branch("range", "25..42", [branch |-> "Range", lower |-> 25, higher |-> 42], "0"),
     Branch("range", "0 .. 9", [branch |-> "Range", lower |-> 0, higher |-> 9], "x")}

(* match v { b1 => o1, ..., bk => ok } with the text that follows the last *)
(* branch.                                                                 *)
MatchInput(branches, last) ==
    <<Part("match", "match v {", "")>>
    \o [i \in 1..Len(branches) |->
            [branches[i] EXCEPT !.text = @ \o (IF i < Len(branches) THEN "," ELSE last)]]
    \o <<Part("close", " }", "")>>

MatchInputs ==
    {MatchInput(<<>>, "")}
    \cup {MatchInput(branches, last) :
            branches \in SeqsUpTo(EnumBranches, MaxBranches) \ {<<>>}, last \in {"", ","}}
    \cup {MatchInput(<<r>>, last) : r \in RangeBranches, last \in {"", ","}}
    \cup {MatchInput(<<e, r>>, ",") : e \in EnumBranches, r \in RangeBranches}

(* Operator symbols between two operands and before one operand.           *)
BinarySymbols ==
    {"==", "!=", ">", "<", ">=", "<=", "&&", "||", "^^", "&", "|", "^", "<<", ">>",
     "+", "-", "*", "/", "%", ".."}

UnarySymbols == {"!", "~", "-"}

OtherSymbols == {"=>", "=<", "+-", "!!", "**", "...", "<<=", "--", "&&&", "<>"}

Spaces == {"", " "}

BinaryOperatorInputs ==
    {<<Part("operand", "a", ""), Part("space", before, ""), Part("symbol", symbol, ""),
       Part("space", after, ""), Part("operand", "b", "")>> :
        before \in Spaces, after \in Spaces,
        symbol \in BinarySymbols \cup UnarySymbols \cup OtherSymbols}

UnaryOperatorInputs ==
    {<<Part("symbol", symbol, ""), Part("space", after, ""), Part("operand", "a", "")>> :
        after \in Spaces, symbol \in BinarySymbols \cup UnarySymbols \cup OtherSymbols}

----------------------------------------------------------------------------
(* The parser as a state machine: an entry production is applied to one    *)
(* input text and its result recorded.                                     *)

Init ==
    /\ pc = "ready"
    /\ production = "none"
    /\ input = ""
    /\ parts = <<>>
    /\ file_name = ""
    /\ result = Ok("", Nil)

Apply(name, ps, r) ==
    /\ pc = "ready"
    /\ pc' = "done"
    /\ production' = name
    /\ parts' = ps
    /\ input' = Concat(ps)
    /\ result' = r

ParseString ==
    \E ps \in RootInputs, name \in FileNames :
        /\ Apply("parse_string", ps, parse_string(Concat(ps), name))
        /\ file_name' = name

ReadConstant ==
    \E ps \in ConstantInputs :
        /\ Apply("read_constant", ps, call("read_constant", <<Concat(ps)>>))
        /\ UNCHANGED file_name

ReadAssignment ==
    \E ps \in AssignmentInputs :
        /\ Apply("read_assignment", ps, call("read_assignment", <<Concat(ps)>>))
        /\ UNCHANGED file_name

ReadOperation ==
    \E ps \in OperationInputs :
        /\ Apply("read_operation", ps, call("read_operation", <<Concat(ps)>>))
        /\ UNCHANGED file_name

ReadMatch ==
    \E ps \in MatchInputs :
        /\ Apply("read_match", ps, call("read_match", <<Concat(ps)>>))
        /\ UNCHANGED file_name

ReadFunctionCall ==
    \E ps \in FunctionCallInputs :
        /\ Apply("read_function_call", ps, call("read_function_call", <<Concat(ps)>>))
        /\ UNCHANGED file_name

ReadFunction ==
    \E ps \in SignatureInputs("fn ") :
        /\ Apply("read_function", ps, call("read_function", <<Concat(ps)>>))
        /\ UNCHANGED file_name

ReadMethod ==
    \E ps \in SignatureInputs("met ") :
        /\ Apply("read_method", ps, call("read_method", <<Concat(ps)>>))
        /\ UNCHANGED file_name

ReadGetter ==
    \E ps \in EncapsulationInputs("get ", ReturnTypes) :
        /\ Apply("read_getter", ps, call("read_getter", <<Concat(ps)>>))
        /\ UNCHANGED file_name

ReadSetter ==
    \E ps \in EncapsulationInputs("set ", {Part("return", "", NLType("None"))}) :
        /\ Apply("read_setter", ps, call("read_setter", <<Concat(ps)>>))
        /\ UNCHANGED file_name

ReadTuple ==
    \E p \in TupleTexts :
        /\ Apply("read_tuple", <<p>>, call("read_tuple", <<p.text>>))
        /\ UNCHANGED file_name

ReadTupleOfVariableNames ==
    \E p \in NameTupleTexts :
        /\ Apply("read_tuple_of_variable_names", <<p>>, call("read_tuple_of_variable_names", <<p.text>>))
        /\ UNCHANGED file_name

ReadArgumentDecelerationList ==
    \E ps \in SelfArgumentInputs \cup {<<p>> : p \in ArgumentListTexts} :
        /\ Apply("read_argument_deceleration_list", ps,
                 call("read_argument_deceleration_list", <<Concat(ps)>>))
        /\ UNCHANGED file_name

ReadVariableType ==
    \E ps \in VariableTypeInputs :
        /\ Apply("read_variable_type", ps, call("read_variable_type", <<Concat(ps)>>))
        /\ UNCHANGED file_name

ReadVariableName ==
    \E ps \in NameInputs :
        /\ Apply("read_variable_name", ps, call("read_variable_name", <<Concat(ps)>>))
        /\ UNCHANGED file_name

ReadStructOrTraitName ==
    \E ps \in NameInputs :
        /\ Apply("read_struct_or_trait_name", ps, call("read_struct_or_trait_name", <<Concat(ps)>>))
        /\ UNCHANGED file_name

ReadMethodName ==
    \E ps \in NameInputs :
        /\ Apply("read_method_name", ps, call("read_method_name", <<Concat(ps)>>))
        /\ UNCHANGED file_name

(* A repetition starts at its input with no items.                         *)
StartRepetition ==
    \E ps \in RepetitionInputs :
        /\ pc = "ready"
        /\ pc' = "repeating"
        /\ production' = ps[1].role
        /\ parts' = ps
        /\ input' = Concat(ps)
        /\ result' = Ok(Concat(ps), <<>>)
        /\ UNCHANGED file_name

(* One iteration of the repetition: the item parser at the remaining input. *)
Iterate ==
    /\ pc = "repeating"
    /\ LET step == many_step(RepetitionKinds[production],
                             call("repetition_item", <<production, result.rest>>),
                             result.rest, result.val)
       IN  /\ result' = step.r
           /\ pc' = IF step.continue THEN "repeating" ELSE "done"
    /\ UNCHANGED <<production, input, parts, file_name>>

ReadBinaryOperator ==
    \E ps \in BinaryOperatorInputs :
        /\ Apply("read_binary_operator", ps, call("read_binary_operator", <<Concat(ps)>>))
        /\ UNCHANGED file_name

ReadUrinaryOperator ==
    \E ps \in UnaryOperatorInputs :
        /\ Apply("read_urinary_operator", ps, call("read_urinary_operator", <<Concat(ps)>>))
        /\ UNCHANGED file_name

Next ==
    \/ ReadConstant
    \/ ReadUrinaryOperator
    \/ ReadBinaryOperator
    \/ ReadFunctionCall
    \/ ReadAssignment
    \/ ReadFunction
    \/ StartRepetition
    \/ Iterate
    \/ ReadTuple
    \/ ReadTupleOfVariableNames
    \/ ReadVariableName
    \/ ReadStructOrTraitName
    \/ ReadMethodName
    \/ ReadVariableType
    \/ ReadArgumentDecelerationList
    \/ ReadMethod
    \/ ReadGetter
    \/ ReadSetter
    \/ ReadMatch
    \/ ReadOperation
    \/ ParseString

Spec == Init /\ [][Next]_vars

----------------------------------------------------------------------------
(* Properties of the file root                                             *)

RootKinds == {"Struct", "Trait", "Function", "Enum"}

Done(name) == pc = "done" /\ production = name

(* Some part of the given role follows only valid root declarations.       *)
FirstOffender(role) ==
    \E i \in 1..Len(parts) :
        /\ parts[i].role = role
        /\ \A j \in 1..(i - 1) : parts[j].role \in RootKinds

(* C1: text that starts no root declaration, at the start of the input or  *)
(* after valid declarations, makes parse_string return an error.           *)
C1_UnmatchedRootTextIsAnError ==
    (Done("parse_string") /\ FirstOffender("Garbage")) => ~result.ok

(* C2: a failure raised after a production committed to its form is not    *)
(* absorbed: parse_string returns an error wherever the construct stands.  *)
C2_CommittedFailureAbortsTheParse ==
    (Done("parse_string") /\ FirstOffender("Failure")) => ~result.ok

RECURSIVE PartsOfRole(_, _)
PartsOfRole(ps, role) ==
    IF ps = <<>> THEN <<>>
    ELSE IF Head(ps).role = role THEN <<Head(ps)>> \o PartsOfRole(Tail(ps), role)
    ELSE PartsOfRole(Tail(ps), role)

(* The list holds, in order, what each part of the kind declares alone.    *)
HoldsExactly(list, kind) ==
    LET expected == PartsOfRole(parts, kind)
    IN  /\ Len(list) = Len(expected)
        /\ \A i \in 1..Len(list) :
             /\ list[i].name = expected[i].note
             /\ RootDeceleration(kind, list[i]) = call("read_root_deceleration", <<expected[i].text>>).val

(* C3: a concatenation of valid root declarations in any order yields a    *)
(* file whose four lists hold exactly the declarations of their kind, in   *)
(* source order.                                                           *)
C3_DeclarationsSortedByKindInOrder ==
    (Done("parse_string") /\ \A i \in 1..Len(parts) : parts[i].role \in RootKinds)
    => /\ result.ok
       /\ HoldsExactly(result.val.structs, "Struct")
       /\ HoldsExactly(result.val.traits, "Trait")
       /\ HoldsExactly(result.val.functions, "Function")
       /\ HoldsExactly(result.val.enums, "Enum")

C3_Witness ==
    /\ Done("parse_string")
    /\ Len(parts) = 3
    /\ parts[1].role = "Function" /\ parts[2].role = "Struct" /\ parts[3].role = "Function"
    /\ parts[1].note # parts[3].note
    /\ result.ok
    /\ Len(result.val.functions) = 2 /\ Len(result.val.structs) = 1

(* C4: the empty string parses to a file with four empty lists whose name  *)
(* is the file_name argument.                                              *)
C4_EmptyInputIsAnEmptyFile ==
    (Done("parse_string") /\ input = "")
    => /\ result.ok
       /\ result.val.structs = <<>> /\ result.val.traits = <<>>
       /\ result.val.functions = <<>> /\ result.val.enums = <<>>
       /\ result.val.name = file_name

C4_Witness ==
    Done("parse_string") /\ input = "" /\ result.ok /\ file_name = "other.nl"

----------------------------------------------------------------------------
(* Properties of numeric literals                                          *)

IsIntegerLiteral == Len(parts) = 4 /\ parts[1].role = "sign" /\ parts[3].role = "digits"

IsFloatLiteral == Len(parts) = 3 /\ parts[2].role = "float"

HasSeparator(text) == "_" \in Chars(text)

(* The type an integer literal resolves to: its suffix, or I32.            *)
ResolvedType(suffix) ==
    IF suffix = "" THEN NLType("I32") ELSE NLType(PrimitiveKeywords[suffix])

WidthOf(nl_type) ==
    IF nl_type.t \in {"I8", "U8"} THEN 8
    ELSE IF nl_type.t \in {"I16", "U16"} THEN 16
    ELSE IF nl_type.t \in {"I32", "U32"} THEN 32
    ELSE 64

(* The value of the sign and magnitude lies in the range of the type.      *)
FitsType(neg, mag, nl_type) ==
    IF is_signed(nl_type)
    THEN \/ FitsBits(mag, WidthOf(nl_type) - 1)
         \/ neg /\ IsPowerOfTwo(mag, WidthOf(nl_type) - 1)
    ELSE (~neg \/ mag = <<>>) /\ FitsBits(mag, WidthOf(nl_type))

(* What the parts of an integer literal denote.                            *)
DenotedInteger ==
    [neg |-> parts[1].text = "-" /\ parts[3].note # <<>>, mag |-> parts[3].note]

DenotedFloat ==
    [neg |-> parts[1].text = "-" /\ parts[2].note[1] # 0,
     mant |-> parts[2].note[1], exp |-> parts[2].note[2]]

(* C5: an integer literal is typed I32 without a suffix and by its integer *)
(* suffix otherwise, with the value its digits denote; a float literal is  *)
(* a 32-bit float without a suffix and a 64-bit float with suffix f64.     *)
C5_NumericLiteralsAreClassifiedAndTyped ==
    /\ (/\ Done("read_constant") /\ IsIntegerLiteral
        /\ ~HasSeparator(parts[3].text)
        /\ parts[4].text \in {""} \cup IntegerSuffixes)
       => LET t == ResolvedType(parts[4].text)
              v == DenotedInteger
          IN  /\ result.ok
                 => result.val = Constant(IF is_signed(t) THEN Signed(v, t) ELSE Unsigned(v, t))
              /\ (FitsType(v.neg, v.mag, t) /\ (parts[1].text = "" \/ is_signed(t)))
                 => result.ok
    /\ (/\ Done("read_constant") /\ IsFloatLiteral
        /\ ~HasSeparator(parts[2].text)
        /\ parts[3].text \in {"", "f32", "f64"})
       => /\ result.ok
          /\ result.val = Constant(IF parts[3].text = "f64" THEN Float64(DenotedFloat)
                                   ELSE Float32(DenotedFloat))

C5_Witness ==
    /\ Done("read_constant") /\ input = "-5i64" /\ result.ok
    /\ result.val.constant = Signed([neg |-> TRUE, mag |-> <<5>>], NLType("I64"))

(* C6: an integer literal whose value does not fit the width and           *)
(* signedness of its resolved type is rejected.                            *)
C6_OutOfRangeIntegerIsRejected ==
    (/\ Done("read_constant") /\ IsIntegerLiteral
     /\ ~HasSeparator(parts[3].text)
     /\ parts[4].text \in {""} \cup IntegerSuffixes
     /\ ~FitsType(DenotedInteger.neg, DenotedInteger.mag, ResolvedType(parts[4].text)))
    => ~result.ok

(* C7: a literal with _ between its digits has the value of the literal    *)
(* without them.                                                           *)
C7_SeparatorsAreIgnorable ==
    (/\ Done("read_constant") /\ IsIntegerLiteral
     /\ HasSeparator(parts[3].text) /\ parts[4].text = "")
    => /\ result.ok
       /\ result.val = Constant(Signed(DenotedInteger, NLType("I32")))

----------------------------------------------------------------------------
(* Properties of assignments                                               *)

IsAssignmentInput ==
    Len(parts) = 4 /\ parts[1].role = "let" /\ parts[2].note # <<>>

ExpectedTypes == [i \in 1..Len(parts[3].note) |-> call("read_variable_type", <<parts[3].note[i]>>).val]

ExpectedValue == call("read_operation", <<parts[4].note>>).val

(* C8: read_operation reads a destructuring assignment as one Assign with  *)
(* the targets in order and the parsed right-hand side.                    *)
C8_DestructuringIsOneAssign ==
    (Done("read_operation") /\ IsAssignmentInput)
    => /\ result.ok
       /\ result.val = Assign(parts[1].note, parts[2].note, <<>>, ExpectedValue)

(* C9: is_new is true exactly when the assignment begins with the keyword  *)
(* let; the targets are the written names in both cases.                   *)
C9_IsNewExactlyWithLet ==
    (Done("read_assignment") /\ IsAssignmentInput /\ result.ok)
    => /\ result.val.is_new = parts[1].note
       /\ result.val.to_assign = parts[2].note
       /\ result.val.assignment = ExpectedValue

(* C10: an annotation : T1, ..., Tn is accepted and recorded in order; no  *)
(* colon gives no type assignments.                                        *)
C10_AnnotationRecordsEveryType ==
    (Done("read_assignment") /\ IsAssignmentInput)
    => /\ result.ok
       /\ result.val.type_assignments = ExpectedTypes

----------------------------------------------------------------------------
(* Properties of operations                                                *)

(* The operations directly below a node of the syntax tree.                *)
Children(n) ==
    CASE n.op = "Block" -> n.operations
      [] n.op = "Assign" -> <<n.assignment>>
      [] n.op = "Tuple" -> n.items
      [] n.op = "Operator" -> n.operands
      [] n.op = "If" -> <<n.condition>> \o n.true_block \o n.false_block
      [] n.op = "Loop" -> n.block
      [] n.op = "WhileLoop" -> <<n.condition>> \o n.block
      [] n.op = "ForLoop" -> <<n.iterator>> \o n.block
      [] n.op = "Match" -> <<n.input>> \o [i \in 1..Len(n.branches) |-> n.branches[i][2]]
      [] OTHER -> <<>>

RECURSIVE Nodes(_)
(* Every node of the syntax tree below and including n.                    *)
Nodes(n) == {n} \cup UNION {Nodes(Children(n)[i]) : i \in 1..Len(Children(n))}

UnaryKinds == {"LogicalNegate", "BitNegate", "ArithmeticNegate"}

IsBinary(n) == n.op = "Operator" /\ n.operator \notin UnaryKinds

StatementKinds == {"If", "Loop", "WhileLoop", "ForLoop", "Break", "Match"}

(* C11: every binary Operator node of a tree returned by read_operation    *)
(* has exactly two operands, none of them a statement or a binary          *)
(* Operator; of `a + b + c` only `a + b` is read.                          *)
C11_BinaryOperandsAreSubOperations ==
    Done("read_operation") /\ result.ok =>
        /\ \A n \in Nodes(result.val) :
               IsBinary(n) =>
                   /\ Len(n.operands) = 2
                   /\ \A i \in 1..2 :
                          /\ n.operands[i].op \notin StatementKinds
                          /\ ~IsBinary(n.operands[i])
        /\ input = "a + b + c" =>
               /\ result.val = Operator("ArithmeticAdd", <<VariableAccess("a"), VariableAccess("b")>>)
               /\ result.rest = " + c"

C11_Witness ==
    /\ Done("read_operation")
    /\ input = "a + b + c"
    /\ result.ok
    /\ IsBinary(result.val)
    /\ result.rest = " + c"

(* The kinds the operator symbols stand for.                                *)
BinaryKindOf ==
    [symbol \in BinarySymbols |->
        CASE symbol = "==" -> "CompareEqual"
          [] symbol = "!=" -> "CompareNotEqual"
          [] symbol = ">" -> "CompareGreater"
          [] symbol = "<" -> "CompareLess"
          [] symbol = ">=" -> "CompareGreaterEqual"
          [] symbol = "<=" -> "CompareLessEqual"
          [] symbol = "&&" -> "LogicalAnd"
          [] symbol = "||" -> "LogicalOr"
          [] symbol = "^^" -> "LogicalXor"
          [] symbol = "&" -> "BitAnd"
          [] symbol = "|" -> "BitOr"
          [] symbol = "^" -> "BitXor"
          [] symbol = "<<" -> "BitLeftShift"
          [] symbol = ">>" -> "BitRightShift"
          [] symbol = "+" -> "ArithmeticAdd"
          [] symbol = "-" -> "ArithmeticSub"
          [] symbol = "*" -> "ArithmeticMul"
          [] symbol = "/" -> "ArithmeticDiv"
          [] symbol = "%" -> "ArithmeticMod"
          [] symbol = ".." -> "Range"]

UnaryKindOf ==
    [symbol \in UnarySymbols |->
        CASE symbol = "!" -> "LogicalNegate"
          [] symbol = "~" -> "BitNegate"
          [] symbol = "-" -> "ArithmeticNegate"]

IsUnknownOperator(r) ==
    /\ ~r.ok
    /\ ~r.panic
    /\ \E i \in 1..Len(r.errors) : r.errors[i].what = "unknown operator"

(* C12: the whole run of symbol characters is the operator; its text       *)
(* selects the binary kind between two operands and the unary kind before  *)
(* one operand, and any other run is the error "unknown operator".         *)
C12_SymbolTextSelectsTheKind ==
    /\ Done("read_binary_operator") =>
           IF parts[3].text \in BinarySymbols
           THEN result = Ok("", Operator(BinaryKindOf[parts[3].text],
                                         <<VariableAccess("a"), VariableAccess("b")>>))
           ELSE IsUnknownOperator(result)
    /\ Done("read_urinary_operator") =>
           IF parts[1].text \in UnarySymbols
           THEN result = Ok("", Operator(UnaryKindOf[parts[1].text], <<VariableAccess("a")>>))
           ELSE IsUnknownOperator(result)

BranchParts == [i \in 1..(Len(parts) - 2) |-> parts[i + 1]]

HasOnly(role) == \A i \in 1..Len(BranchParts) : BranchParts[i].role = role

ExpectedBranches ==
    [i \in 1..Len(BranchParts) |->
        <<BranchParts[i].note.pattern, call("read_operation", <<BranchParts[i].note.body>>).val>>]

(* C13: a match whose patterns are enum variants returns a Match over its  *)
(* operand with one branch per written branch, in order, each with its     *)
(* enum, variant, bound names and body, with or without a comma after the  *)
(* last branch.                                                            *)
C13_EnumBranchesInSourceOrder ==
    (Done("read_match") /\ HasOnly("enum")) =>
        result = Ok("", Match(VariableAccess("v"), ExpectedBranches))

C13_Witness ==
    /\ Done("read_match")
    /\ HasOnly("enum")
    /\ Len(BranchParts) = 2
    /\ result.ok
    /\ result.val.branches[2][1] = MatchEnumBranch("Shape", "Rect", <<"w", "h">>)
    /\ result.val.branches[1][1] = MatchEnumBranch("E", "B", <<"x">>)

(* C14: a match with a branch lo..hi => op is accepted and has a Range      *)
(* branch (lo, hi) with its body.                                          *)
C14_RangeBranchIsAccepted ==
    (Done("read_match") /\ \E i \in 1..Len(BranchParts) : BranchParts[i].role = "range") =>
        /\ result.ok
        /\ result.val.branches = ExpectedBranches

(* C15: a call is accepted only when what stands between the parentheses  *)
(* is a comma-separated list of bare names, and then has the path and      *)
(* exactly those names as arguments.                                       *)
C15_ArgumentsAreBareNamesOrRejected ==
    Done("read_function_call") =>
        IF parts[3].role = "names"
        THEN result = Ok("", FunctionCall(parts[1].text, parts[3].note))
        ELSE ~result.ok

----------------------------------------------------------------------------
(* Properties of declarations                                              *)

IsStructInput == Len(parts) >= 2 /\ parts[1].role = "struct"

NotesOfRole(role) ==
    LET selected == PartsOfRole(parts, role)
    IN  [i \in 1..Len(selected) |-> selected[i].note]

(* C16: a struct declaration, with or without a comma after its last       *)
(* variable, yields exactly one struct with its name, its variables in     *)
(* declared order and the implementation blocks that follow it, in order.  *)
C16_StructHoldsVariablesAndImplementations ==
    (Done("parse_string") /\ IsStructInput) =>
        /\ result.ok
        /\ result.val.structs =
               <<[name |-> parts[1].note, variables |-> NotesOfRole("variable"),
                  implementations |-> NotesOfRole("impl")]>>
        /\ result.val.traits = <<>> /\ result.val.functions = <<>> /\ result.val.enums = <<>>

C16_Witness ==
    /\ Done("parse_string")
    /\ IsStructInput
    /\ result.ok
    /\ Len(result.val.structs[1].variables) = 2
    /\ result.val.structs[1].variables[1].name = "pos"
    /\ Len(result.val.structs[1].implementations) = 2
    /\ result.val.structs[1].implementations[1].name = "Self"
    /\ result.val.structs[1].implementations[2].name = "MyStruct"

(* C17: a function or method has a block exactly when a body follows its  *)
(* signature; without a body it is accepted only when `;` follows, with no *)
(* block; with neither it is an error.  The return type is None exactly    *)
(* when no `->` is written.                                                *)
C17_BlockPresentExactlyWithBody ==
    (Done("read_function") \/ Done("read_method")) =>
        /\ parts[5].role = "body" =>
               /\ result.ok
               /\ result.val.item.block = Some(call("read_code_block_raw", <<parts[5].text>>).val)
        /\ parts[5].role = "semicolon" =>
               /\ result.ok
               /\ result.val.item.block = None
        /\ parts[5].role = "nothing" => ~result.ok
        /\ result.ok =>
               /\ result.val.item.return_type = parts[4].note
               /\ result.val.item.return_type = NLType("None") <=> parts[4].text = ""

C17_Witness ==
    /\ Done("read_method")
    /\ parts[5].role = "semicolon"
    /\ parts[4].text # ""
    /\ result.ok
    /\ result.val.item.block = None
    /\ result.val.item.return_type = NLType("I32")

(* C18: a getter or setter has exactly one body state: Default exactly    *)
(* when `: default` follows the name (and then no arguments), Some(block)  *)
(* exactly when a body follows the argument list, None exactly when `;`    *)
(* follows it.                                                             *)
C18_BodyStateFollowsTheForm ==
    (Done("read_getter") \/ Done("read_setter")) =>
        /\ result.ok
        /\ result.val.item.block \in
               {EncapsulationDefault, EncapsulationNone,
                EncapsulationSome(result.val.item.block.block)}
        /\ result.val.item.block = EncapsulationDefault <=> parts[3].role = "default"
        /\ parts[3].role = "default" => result.val.item.args = <<>>
        /\ result.val.item.block.state = "Some" <=>
               (parts[3].role = "args" /\ parts[5].role = "body")
        /\ result.val.item.block.state = "Some" =>
               result.val.item.block.block = call("read_code_block_raw", <<parts[5].text>>).val
        /\ result.val.item.block = EncapsulationNone <=>
               (parts[3].role = "args" /\ parts[5].role = "semicolon")

C18_Witness ==
    /\ Done("read_getter")
    /\ parts[3].role = "default"
    /\ parts[4].text # ""
    /\ result.ok
    /\ result.val.item.block = EncapsulationDefault

(* C19: `(&self)` gives the single argument self of type SelfReference     *)
(* and `(&mut self)` the single argument self of type                      *)
(* MutableSelfReference, whatever blanks (none, spaces, tabs) stand after  *)
(* `&` and between `mut` and `self`.                                       *)
C19_SelfArgumentIgnoresBlanks ==
    (Done("read_argument_deceleration_list") /\ parts[1].role = "open") =>
        /\ result.ok
        /\ result.rest = ""
        /\ result.val =
               <<NLArgument("self",
                            NLType(IF parts[3].text = "mut"
                                   THEN "MutableSelfReference"
                                   ELSE "SelfReference"))>>

C19_Witness ==
    /\ Done("read_argument_deceleration_list")
    /\ parts[1].role = "open"
    /\ parts[2].text = "\t"
    /\ parts[3].text = "mut"
    /\ parts[4].text = ""
    /\ result.ok
    /\ result.val = <<NLArgument("self", NLType("MutableSelfReference"))>>

(* C20: a name that is no primitive keyword, written bare or after `&`,    *)
(* `&mut`, `dyn`, `&dyn`, `&mut dyn`, is read as the variant the marker    *)
(* denotes holding the complete name; a primitive keyword standing alone   *)
(* is read as its primitive.                                               *)
C20_MarkerAndWholeNameGiveTheType ==
    (Done("read_variable_type") /\ parts[2].role = "name") =>
        /\ result.ok
        /\ result.val =
               IF parts[1].note = "primitive"
               THEN NLType(PrimitiveKeywords[parts[2].text])
               ELSE NamedType(parts[1].note, parts[2].text)

----------------------------------------------------------------------------
(* Properties of errors                                                    *)

IsSuffix(t, s) == Len(t) <= Len(s) /\ Drop(s, Len(s) - Len(t)) = t

IsError(r) == ~r.ok /\ ~r.panic

(* C21: every error a production or parse_string returns carries a static  *)
(* context string and the remaining input at the point of failure.         *)
C21_ErrorsCarryContextAndSlice ==
    (pc = "done" /\ IsError(result)) =>
        /\ result.errors # <<>>
        /\ \A i \in DOMAIN result.errors : IsSuffix(result.errors[i].input, input)
        /\ \E i \in DOMAIN result.errors : result.errors[i].kind = "Context"

IsBreakInput == \E i \in 1..Len(parts) : parts[i].role = "break"

(* C23: read_operation returns Break for `break` after any whitespace or   *)
(* comments, so a block holding only `break` holds the one operation Break. *)
C23_BreakAfterTrivia ==
    (Done("read_operation") /\ IsBreakInput) =>
        /\ result.ok
        /\ result.val = IF parts[1].role = "open" THEN Block(<<Break>>) ELSE Break

(* C24: in the type grammar `&self` is SelfReference and `&mut self` is    *)
(* MutableSelfReference, never a struct or trait named self.               *)
C24_SelfTypeIsASelfReference ==
    (Done("read_variable_type") /\ parts[2].role = "self") =>
        /\ result.ok
        /\ result.val = NLType(parts[1].note)

----------------------------------------------------------------------------
(* Properties of names                                                     *)

NameReaders == {"read_variable_name", "read_struct_or_trait_name", "read_method_name"}

IsPlainName(n) == n # "" /\ Chars(n) \subseteq (AlphaChars \cup {"_"})

ReadWhole == result.ok /\ result.val = input /\ result.rest = ""

(* C25: every name position reads the same names, one or more letters and  *)
(* `_`: such a name is read whole by the reader of every position, and a   *)
(* name holding a digit by none.                                           *)
C25_EveryPositionReadsPlainNames ==
    (pc = "done" /\ production \in NameReaders) => (ReadWhole <=> IsPlainName(input))

----------------------------------------------------------------------------
(* Properties of repetitions                                               *)

(* The iteration a repetition under way takes next.                        *)
NextIteration ==
    many_step(RepetitionKinds[production], call("repetition_item", <<production, result.rest>>),
              result.rest, result.val)

----------------------------------------------------------------------------
(* Properties of the parser as a whole                                     *)

(* C27: parse_string and read_operation return a value or an error on      *)
(* every input and never panic.                                            *)
C27_ParserNeverPanics ==
    (Done("parse_string") \/ Done("read_operation")) => ~result.panic

ListReaders == {"read_tuple", "read_tuple_of_variable_names", "read_argument_deceleration_list"}

IsListInput == pc = "done" /\ production \in ListReaders /\ parts[1].role = "list"

Elements == IF production = "read_tuple" THEN result.val.items ELSE result.val

(* C28: a parenthesised list that is read is read without loss: the        *)
(* elements returned are as many as the entries written, whatever blanks   *)
(* stand around the commas and whatever parentheses are nested, the text   *)
(* up to the matching parenthesis is consumed, and entries without a comma *)
(* between them are not read as a list.                                    *)
C28_ListsAreLossFree ==
    (IsListInput /\ result.ok) =>
        /\ parts[1].note >= 0
        /\ Len(Elements) = parts[1].note
        /\ result.rest = ""

----------------------------------------------------------------------------
(* Properties of constants                                                 *)

(* C29: a Signed constant carries a signed integer type and an Unsigned    *)
(* constant an unsigned integer type, so an integer literal with a float   *)
(* suffix is no integer constant of type F32 or F64; a negative literal    *)
(* with an unsigned suffix is rejected.                                    *)
C29_IntegerConstantTypeMatchesRepresentation ==
    Done("read_constant") =>
        /\ (result.ok /\ result.val.constant.c = "Signed")
              => is_signed(result.val.constant.type)
        /\ (result.ok /\ result.val.constant.c = "Unsigned")
              => is_unsigned(result.val.constant.type)
        /\ (IsIntegerLiteral /\ parts[1].text = "-" /\ parts[4].text \in {"u8", "u16", "u32", "u64"})
              => ~result.ok

----------------------------------------------------------------------------
(* Properties of files without declarations                                *)

IsTriviaFile == Len(parts) = 1 /\ parts[1].role = "TriviaFile"

(* C30: an input of at least one character that holds only whitespace and  *)
(* complete comments parses like the empty input: parse_string succeeds    *)
(* with empty structs, traits, functions and enums lists.                  *)
C30_TriviaOnlyInputIsAnEmptyFile ==
    (Done("parse_string") /\ IsTriviaFile)
    => /\ result.ok
       /\ result.val.structs = <<>> /\ result.val.traits = <<>>
       /\ result.val.functions = <<>> /\ result.val.enums = <<>>

====
